---- MODULE Spec2Model ----
(***************************************************************************)
(* Protocol engine of pyrenogy (client.py): CRC16 codec, frame codec and   *)
(* the transaction engine of RenogyClient over a serial transport.         *)
(*                                                                         *)
(* The serial line is the environment.  A request written to the line is   *)
(* answered by the device with one of a bounded family of byte sequences   *)
(* (Responses).  A first part of the answer reaches the input buffer       *)
(* `rxbuf' of the port before the read deadlines of the transaction; the   *)
(* rest stays on `wire' and arrives later (Arrive) or never (Lose).        *)
(* serial.read(n) returns n bytes when n bytes are buffered before its     *)
(* deadline and otherwise the fewer bytes that are buffered.  The device   *)
(* handles one request at a time: a request that reaches it while it is    *)
(* still sending the previous answer is not answered.                      *)
(***************************************************************************)
EXTENDS Integers, Sequences, FiniteSets, TLC

(* ------------------------------ bounds --------------------------------- *)

\* number of serial.Serial objects that may be open at a time
MaxSerials == 2

\* longest byte sequence the CRC functions are applied to
MaxLen == 3

(* --------------------------- program constants ------------------------- *)

READ_HOLDING_REGISTERS == 3
WRITE_SINGLE_REGISTER == 6
device_id == 1

\* self._serial is None
NoSerial == 0

\* threads that may call into one client; MainThread, the first of them, is
\* the only caller of the single-threaded specification
Threads == {1, 2}
MainThread == CHOOSE t \in Threads : \A u \in Threads : t <= u

(* ------------------------------ CRC16 codec ---------------------------- *)

CRC_TABLE ==
    << 
       0, 49345, 49537, 320, 49921, 960, 640, 49729,
       50689, 1728, 1920, 51009, 1280, 50625, 50305, 1088,
       52225, 3264, 3456, 52545, 3840, 53185, 52865, 3648,
       2560, 51905, 52097, 2880, 51457, 2496, 2176, 51265,
       55297, 6336, 6528, 55617, 6912, 56257, 55937, 6720,
       7680, 57025, 57217, 8000, 56577, 7616, 7296, 56385,
       5120, 54465, 54657, 5440, 55041, 6080, 5760, 54849,
       53761, 4800, 4992, 54081, 4352, 53697, 53377, 4160,
       61441, 12480, 12672, 61761, 13056, 62401, 62081, 12864,
       13824, 63169, 63361, 14144, 62721, 13760, 13440, 62529,
       15360, 64705, 64897, 15680, 65281, 16320, 16000, 65089,
       64001, 15040, 15232, 64321, 14592, 63937, 63617, 14400,
       10240, 59585, 59777, 10560, 60161, 11200, 10880, 59969,
       60929, 11968, 12160, 61249, 11520, 60865, 60545, 11328,
       58369, 9408, 9600, 58689, 9984, 59329, 59009, 9792,
       8704, 58049, 58241, 9024, 57601, 8640, 8320, 57409,
       40961, 24768, 24960, 41281, 25344, 41921, 41601, 25152,
       26112, 42689, 42881, 26432, 42241, 26048, 25728, 42049,
       27648, 44225, 44417, 27968, 44801, 28608, 28288, 44609,
       43521, 27328, 27520, 43841, 26880, 43457, 43137, 26688,
       30720, 47297, 47489, 31040, 47873, 31680, 31360, 47681,
       48641, 32448, 32640, 48961, 32000, 48577, 48257, 31808,
       46081, 29888, 30080, 46401, 30464, 47041, 46721, 30272,
       29184, 45761, 45953, 29504, 45313, 29120, 28800, 45121,
       20480, 37057, 37249, 20800, 37633, 21440, 21120, 37441,
       38401, 22208, 22400, 38721, 21760, 38337, 38017, 21568,
       39937, 23744, 23936, 40257, 24320, 40897, 40577, 24128,
       23040, 39617, 39809, 23360, 39169, 22976, 22656, 38977,
       34817, 18624, 18816, 35137, 19200, 35777, 35457, 19008,
       19968, 36545, 36737, 20288, 36097, 19904, 19584, 35905,
       17408, 33985, 34177, 17728, 34561, 18368, 18048, 34369,
       33281, 17088, 17280, 33601, 16640, 33217, 32897, 16448
    >>

\* a ^ b on 16-bit operands, bit by bit
Xor(a, b) ==
    LET D(w) == (((a \div w) % 2) + ((b \div w) % 2)) % 2
    IN  (1 * D(1)) +
        (2 * D(2)) +
        (4 * D(4)) +
        (8 * D(8)) +
        (16 * D(16)) +
        (32 * D(32)) +
        (64 * D(64)) +
        (128 * D(128)) +
        (256 * D(256)) +
        (512 * D(512)) +
        (1024 * D(1024)) +
        (2048 * D(2048)) +
        (4096 * D(4096)) +
        (8192 * D(8192)) +
        (16384 * D(16384)) +
        (32768 * D(32768))

\* the update without the shifted accumulator
crc_update_table_only(crc, byte) ==
    CRC_TABLE[(Xor(crc, byte) % 256) + 1]

\* the body of the loop: crc = (crc >> 8) ^ CRC_TABLE[(crc ^ byte) & 0xFF]
crc_update(crc, byte) ==
    Xor(crc \div 256, CRC_TABLE[(Xor(crc, byte) % 256) + 1])

\* crc after the first n iterations of the loop of calculate_crc16, starting
\* from 0xFFFF (the singleton sets bind the accumulator and the byte to
\* their values, so that each is computed once)
RECURSIVE crc_loop(_, _)
crc_loop(data, n) ==
    IF n = 0 THEN 65535
    ELSE CHOOSE next \in
             { crc_update(crc, byte) :
                 crc \in { crc_loop(data, n - 1) }, byte \in { data[n] } } : TRUE

calculate_crc16(data) ==
    CHOOSE crc \in { crc_loop(d, Len(d)) : d \in { data } } : TRUE

\* struct.pack(">H", v), struct.pack("<H", v), struct.unpack
PackBE16(v) == << v \div 256, (v % 256) >>
PackLE16(v) == << (v % 256), v \div 256 >>
UnpackBE16(b) == (b[1] * 256) + b[2]
UnpackLE16(b) == b[1] + (b[2] * 256)

\* verify_crc reading the received checksum in big-endian order
verify_crc_big_endian(data) ==
    IF Len(data) < 3 THEN FALSE
    ELSE LET message == SubSeq(data, 1, Len(data) - 2)
             received_crc == UnpackBE16(SubSeq(data, Len(data) - 1, Len(data)))
             calculated_crc == calculate_crc16(message)
         IN  received_crc = calculated_crc

\* verify_crc computing the checksum over the whole buffer, checksum included
verify_crc_whole_buffer(data) ==
    IF Len(data) < 3 THEN FALSE
    ELSE LET received_crc == UnpackLE16(SubSeq(data, Len(data) - 1, Len(data)))
             calculated_crc == calculate_crc16(data)
         IN  received_crc = calculated_crc

\* verify_crc accepting a buffer of two bytes
verify_crc_two_bytes(data) ==
    IF Len(data) < 2 THEN FALSE
    ELSE LET message == SubSeq(data, 1, Len(data) - 2)
             received_crc == UnpackLE16(SubSeq(data, Len(data) - 1, Len(data)))
             calculated_crc == calculate_crc16(message)
         IN  received_crc = calculated_crc

verify_crc(data) ==
    IF Len(data) < 3 THEN FALSE
    ELSE LET message == SubSeq(data, 1, Len(data) - 2)
             received_crc == UnpackLE16(SubSeq(data, Len(data) - 1, Len(data)))
             calculated_crc == calculate_crc16(message)
         IN  received_crc = calculated_crc

(* ------------------------------ frame codec ---------------------------- *)

\* _build_request packing the address and the count low byte first
_build_request_little_endian(function_code, start_address, count) ==
    LET frame == << device_id, function_code >> \o PackLE16(start_address)
                     \o PackLE16(count)
    IN  frame \o PackLE16(calculate_crc16(frame))

\* struct.pack(">BBHH", ...) followed by the little-endian CRC
_build_request(function_code, start_address, count) ==
    LET frame == << device_id, function_code >> \o PackBE16(start_address)
                     \o PackBE16(count)
    IN  frame \o PackLE16(calculate_crc16(frame))

\* write_register packs its frame inline with the write-single function code
write_register_frame(address, value) ==
    LET frame == << device_id, WRITE_SINGLE_REGISTER >> \o PackBE16(address)
                     \o PackBE16(value)
    IN  frame \o PackLE16(calculate_crc16(frame))

(* --------------------------- the device (environment) ------------------ *)

\* the bytes of a block of register words, high byte first
WordsToBytes(ws) ==
    [i \in 1..(2 * Len(ws)) |->
        IF i % 2 = 1 THEN PackBE16(ws[(i + 1) \div 2])[1]
        ELSE PackBE16(ws[i \div 2])[2]]

WithCrc(m) == m \o PackLE16(calculate_crc16(m))
\* checksum bytes on the wire in the wrong order
BadCrc(m) == m \o PackBE16(calculate_crc16(m))

\* register blocks the device may report
DeviceBlocks ==
    { << 1 >>, << 0 >>, << 4660 >>, << 85, 4660 >>,
      << 85, 132, 15, 5125, 125, 2, 25, 125, 8, 50, 1 >> }

ExceptionFrames(fc) ==
    { WithCrc(<< device_id, fc + 128, 2 >>),
      WithCrc(<< device_id, fc + 128, 7 >>),
      << device_id, fc + 128, 2, 0, 0 >> }

\* what the device may put on the line in answer to the request frame req
Responses(req) ==
    LET fc == req[2]
        count == UnpackBE16(SubSeq(req, 5, 6))
        blocks == { b \in DeviceBlocks : Len(b) = count }
        normal(b) == << device_id, fc, 2 * Len(b) >> \o WordsToBytes(b)
    IN  IF fc = READ_HOLDING_REGISTERS
        THEN { << >>, << device_id, fc >> }
               \cup { WithCrc(normal(b)) : b \in blocks }
               \cup { BadCrc(normal(b)) : b \in blocks }
               \cup { WithCrc(normal(b)) \o << 0 >> : b \in blocks }
               \cup { WithCrc(<< device_id, fc, 0 >>),
                      WithCrc(<< device_id, fc, 1, 85 >>),
                      WithCrc(normal(<< 1 >>)) }
               \cup ExceptionFrames(fc)
        ELSE { << >>, SubSeq(req, 1, 8),
               WithCrc(<< device_id, fc, 2 >> \o SubSeq(req, 5, 6)) }
               \cup ExceptionFrames(fc)

\* the answer of a device that works: the 8-byte echo of a write-single
\* request, the register block of a read request
GoodResponses(req) ==
    IF req[2] = WRITE_SINGLE_REGISTER THEN { SubSeq(req, 1, 8) }
    ELSE { WithCrc(<< device_id, req[2], 2 * Len(b) >> \o WordsToBytes(b)) :
             b \in { d \in DeviceBlocks : Len(d) = UnpackBE16(SubSeq(req, 5, 6)) } }

(* ------------------------------ API calls ------------------------------ *)

NoCall == [op |-> "none", address |-> 0, arg |-> 0]

ApiCalls ==
    { [op |-> "read_registers", address |-> 256, arg |-> n] : n \in {1, 2} }
      \cup { [op |-> "write_register", address |-> a, arg |-> 1] : a \in {266, 768} }
      \cup { [op |-> "set_load", address |-> 0, arg |-> on] : on \in {0, 1} }
      \cup { [op |-> "get_load_state", address |-> 0, arg |-> 0],
             [op |-> "read_realtime_data", address |-> 0, arg |-> 0] }

\* RequestOf with get_load_state taking the switch from the real-time block
RequestOf_from_block(c) ==
    CASE c.op = "read_registers" ->
           _build_request(READ_HOLDING_REGISTERS, c.address, c.arg)
      [] c.op = "write_register" -> write_register_frame(c.address, c.arg)
      [] c.op = "set_load" -> write_register_frame(266, IF c.arg = 1 THEN 1 ELSE 0)
      [] c.op = "get_load_state" -> _build_request(READ_HOLDING_REGISTERS, 256, 11)
      [] c.op = "read_realtime_data" -> _build_request(READ_HOLDING_REGISTERS, 256, 11)

\* the request frame the call hands to _send_request
RequestOf(c) ==
    CASE c.op = "read_registers" ->
           _build_request(READ_HOLDING_REGISTERS, c.address, c.arg)
      [] c.op = "write_register" -> write_register_frame(c.address, c.arg)
      [] c.op = "set_load" -> write_register_frame(266, IF c.arg = 1 THEN 1 ELSE 0)
      [] c.op = "get_load_state" -> _build_request(READ_HOLDING_REGISTERS, 266, 1)
      [] c.op = "read_realtime_data" -> _build_request(READ_HOLDING_REGISTERS, 256, 11)

(* -------------------------------- state -------------------------------- *)

VARIABLES
    pc,         \* per thread: position inside the current API call
    call,       \* per thread: the API call in progress
    request,    \* per thread: the request frame of the call
    header,     \* per thread: bytes returned by serial.read(3)
    remaining,  \* per thread: bytes returned by the second serial.read
    ops,        \* per thread: transport operations performed by the call
    outcome,    \* per thread: what the call returns or raises
    _serial,    \* self._serial: NoSerial or the id of a Serial object
    is_open,    \* Serial object id -> is_open
    rxbuf,      \* input buffer of the port
    wire,       \* bytes the device has sent that have not yet arrived
    info,       \* per thread: the read_device_info call in progress
    _device_info, \* self._device_info: NoDeviceInfo or a DeviceInfo
    with_block, \* the with statement of the client: "none" before it is
                \* entered, "body" inside the block, "exited" after it
    reading,    \* per thread: the read_all call in progress
    input,      \* arguments a function of the package is applied to
    output      \* what the function returned for input

vars == << pc, call, request, header, remaining, ops, outcome,
           _serial, is_open, rxbuf, wire, info, _device_info, with_block, reading,
           input, output >>

\* the state outside the transaction engine
others == << info, _device_info, with_block, reading, input, output >>

NoOutcome ==
    [kind |-> "none", data |-> << >>, values |-> << >>, flag |-> FALSE,
     exception_code |-> 0, function_code |-> 0, message |-> ""]

Raise(k) == [NoOutcome EXCEPT !.kind = k]

\* DeviceInfo(): the four fields are empty strings (a string is the sequence
\* of its character codes)
DeviceInfo ==
    [model |-> << >>, serial_number |-> << >>,
     hardware_version |-> << >>, software_version |-> << >>]

\* self._device_info = None
NoDeviceInfo == [none |-> TRUE]

\* no read_device_info call in progress
NoInfo == [active |-> FALSE, field |-> 0, reads |-> << >>, info |-> DeviceInfo]

\* no read_all call in progress, none has returned
NoReading ==
    [active |-> FALSE, stage |-> "none", include_device_info |-> FALSE,
     device_info |-> DeviceInfo]

\* no function applied
NoInput == [fn |-> "none", data |-> << >>]
NoOutput == [done |-> FALSE]

\* RenogyClient(port): no transport, no cached device info, no call running
InitClient ==
    /\ pc = [t \in Threads |-> "idle"]
    /\ call = [t \in Threads |-> NoCall]
    /\ request = [t \in Threads |-> << >>]
    /\ header = [t \in Threads |-> << >>]
    /\ remaining = [t \in Threads |-> << >>]
    /\ ops = [t \in Threads |-> << >>]
    /\ outcome = [t \in Threads |-> NoOutcome]
    /\ _serial = NoSerial
    /\ is_open = [s \in 1..MaxSerials |-> FALSE]
    /\ rxbuf = << >>
    /\ wire = << >>
    /\ info = [t \in Threads |-> NoInfo]
    /\ _device_info = NoDeviceInfo
    /\ with_block = "none"
    /\ reading = [t \in Threads |-> NoReading]

Init ==
    /\ InitClient
    /\ input = NoInput
    /\ output = NoOutput

is_connected == _serial # NoSerial /\ is_open[_serial]

(* ----------------------- connect / disconnect -------------------------- *)

\* self._serial = serial.Serial(...): a new open Serial object (it takes the
\* first id that no open object has); a failed serial.Serial(...) raises
\* DeviceNotFoundError and leaves the client unchanged (a stuttering step)
serial_Serial ==
    \E s \in 1..MaxSerials :
        /\ ~is_open[s]
        /\ \A u \in 1..(s - 1) : is_open[u]
        /\ is_open' = [is_open EXCEPT ![s] = TRUE]
        /\ _serial' = s

connect(t) ==
    /\ pc[t] = "idle"
    /\ serial_Serial
    /\ UNCHANGED << others, pc, call, request, header, remaining, ops, outcome, rxbuf, wire >>

\* if self._serial and self._serial.is_open: close(); self._serial = None
close_serial ==
    /\ is_open' = IF _serial # NoSerial /\ is_open[_serial]
                  THEN [is_open EXCEPT ![_serial] = FALSE]
                  ELSE is_open
    /\ _serial' = NoSerial

disconnect(t) ==
    /\ pc[t] = "idle"
    /\ close_serial
    /\ UNCHANGED << others, pc, call, request, header, remaining, ops, outcome,
                    rxbuf, wire >>

\* with client: ... is entered: __enter__ runs connect(); when connect()
\* raises, the block is not entered (a stuttering step)  (client.py:155-158)
__enter__(t) ==
    /\ pc[t] = "idle"
    /\ with_block # "body"
    /\ serial_Serial
    /\ with_block' = "body"
    /\ UNCHANGED << info, _device_info, reading, input, output, pc, call, request, header,
                    remaining, ops, outcome, rxbuf, wire >>

\* the with block is left, its body has returned or raised: __exit__ runs
\* disconnect()  (client.py:160-162)
__exit__(t) ==
    /\ pc[t] = "idle"
    /\ with_block = "body"
    /\ close_serial
    /\ with_block' = "exited"
    /\ UNCHANGED << info, _device_info, reading, input, output, pc, call, request, header,
                    remaining, ops, outcome, rxbuf, wire >>

\* a Serial object that self._serial no longer refers to has no owner; the
\* client never closes it, the runtime may when it finalizes the object
Finalize ==
    /\ \E s \in 1..MaxSerials :
          /\ is_open[s]
          /\ s # _serial
          /\ is_open' = [is_open EXCEPT ![s] = FALSE]
    /\ UNCHANGED << others, pc, call, request, header, remaining, ops, outcome,
                    _serial, rxbuf, wire >>

(* ---------------------------- _send_request ---------------------------- *)

\* the transport operations are logged as << name, size >>
Log(t, name, n) == ops' = [ops EXCEPT ![t] = Append(@, << name, n >>)]

\* an exception leaves the call: pc "failed", outcome o
Fail(t, o) ==
    /\ pc' = [pc EXCEPT ![t] = "failed"]
    /\ outcome' = [outcome EXCEPT ![t] = o]

\* self._serial has become None under a running call (another thread ran
\* disconnect): the attribute access on None raises AttributeError
SerialGone(t) ==
    /\ _serial = NoSerial
    /\ Fail(t, Raise("AttributeError"))
    /\ UNCHANGED << others, call, request, header, remaining, ops,
                    _serial, is_open, rxbuf, wire >>

\* Call without the is_connected check of _send_request
Call_unchecked(t, c) ==
    /\ pc[t] = "idle"
    /\ call' = [call EXCEPT ![t] = c]
    /\ request' = [request EXCEPT ![t] = RequestOf(c)]
    /\ pc' = [pc EXCEPT ![t] = "flush"]
    /\ outcome' = [outcome EXCEPT ![t] = NoOutcome]
    /\ UNCHANGED << others, header, remaining, ops, _serial, is_open, rxbuf, wire >>

\* an API call is entered: the request frame is built and _send_request
\* checks is_connected (client.py:233-234)
Call(t, c) ==
    /\ pc[t] = "idle"
    /\ call' = [call EXCEPT ![t] = c]
    /\ request' = [request EXCEPT ![t] = RequestOf(c)]
    /\ IF is_connected
       THEN /\ pc' = [pc EXCEPT ![t] = "flush"]
            /\ outcome' = [outcome EXCEPT ![t] = NoOutcome]
       ELSE Fail(t, Raise("CommunicationError"))
    /\ UNCHANGED << others, header, remaining, ops, _serial, is_open, rxbuf, wire >>

\* _send_request without the defensive flush
ResetInputBuffer_skipped(t) ==
    /\ pc[t] = "flush"
    /\ pc' = [pc EXCEPT ![t] = "write"]
    /\ UNCHANGED << others, call, request, header, remaining, ops, outcome,
                    _serial, is_open, rxbuf, wire >>

\* self._serial.reset_input_buffer()  (client.py:237)
ResetInputBuffer(t) ==
    /\ pc[t] = "flush"
    /\ \/ SerialGone(t)
       \/ /\ _serial # NoSerial
          /\ rxbuf' = << >>
          /\ Log(t, "reset_input_buffer", 0)
          /\ pc' = [pc EXCEPT ![t] = "write"]
          /\ UNCHANGED << others, call, request, header, remaining, outcome,
                          _serial, is_open, wire >>

\* how many bytes of an answer r may be buffered before the read deadlines:
\* none, part of the header, the header, part of the rest, all but one, all
Cuts(r) == { 0, 2, 3, 4, Len(r) - 1, Len(r) } \cap 0..Len(r)

\* the device receives a request that it may answer with any r of answers:
\* the first k bytes of r are buffered before the read deadlines, the others
\* stay on the wire
DeviceAnswers(answers) ==
    IF wire = << >>
    THEN \E r \in answers : \E k \in Cuts(r) :
            /\ rxbuf' = rxbuf \o SubSeq(r, 1, k)
            /\ wire' = SubSeq(r, k + 1, Len(r))
    ELSE UNCHANGED << rxbuf, wire >>

\* self._serial.write(request); the device answers  (client.py:240-244)
WriteTo(t, answers) ==
    /\ pc[t] = "write"
    /\ \/ SerialGone(t)
       \/ /\ _serial # NoSerial
          /\ DeviceAnswers(answers)
          /\ Log(t, "write", Len(request[t]))
          /\ pc' = [pc EXCEPT ![t] = "read_header"]
          /\ UNCHANGED << others, call, request, header, remaining, outcome,
                          _serial, is_open >>

Write(t) == WriteTo(t, Responses(request[t]))

\* ReadHeader that starts the exchange again when the header is short
ReadHeader_retry(t) ==
    /\ pc[t] = "read_header"
    /\ \/ SerialGone(t)
       \/ /\ _serial # NoSerial
          /\ Log(t, "read", 3)
          /\ IF Len(rxbuf) >= 3
             THEN /\ header' = [header EXCEPT ![t] = SubSeq(rxbuf, 1, 3)]
                  /\ rxbuf' = SubSeq(rxbuf, 4, Len(rxbuf))
                  /\ pc' = [pc EXCEPT ![t] = "header"]
             ELSE /\ header' = [header EXCEPT ![t] = rxbuf]
                  /\ rxbuf' = << >>
                  /\ pc' = [pc EXCEPT ![t] = "flush"]
          /\ UNCHANGED << others, call, request, remaining, outcome, _serial, is_open, wire >>

\* header = self._serial.read(3)  (client.py:247-249)
ReadHeader(t) ==
    /\ pc[t] = "read_header"
    /\ \/ SerialGone(t)
       \/ /\ _serial # NoSerial
          /\ Log(t, "read", 3)
          /\ IF Len(rxbuf) >= 3
             THEN /\ header' = [header EXCEPT ![t] = SubSeq(rxbuf, 1, 3)]
                  /\ rxbuf' = SubSeq(rxbuf, 4, Len(rxbuf))
                  /\ pc' = [pc EXCEPT ![t] = "header"]
                  /\ UNCHANGED outcome
             ELSE \* fewer than 3 bytes before the read deadline
                  /\ header' = [header EXCEPT ![t] = rxbuf]
                  /\ rxbuf' = << >>
                  /\ Fail(t, Raise("TimeoutError"))
          /\ UNCHANGED << others, call, request, remaining, _serial, is_open, wire >>

\* device_id, function_code, byte_count = struct.unpack("BBB", header)
function_code(t) == header[t][2]
byte_count(t) == header[t][3]

\* if function_code & 0x80  (client.py:251-254)
IsException(fc) == (fc \div 128) % 2 = 1

\* MODBUS_EXCEPTION_CODES  (exceptions.py:56-66)
MODBUS_EXCEPTION_CODES ==
    [code \in { 1, 2, 3, 4, 5, 6, 8, 10, 11 } |->
        CASE code = 1 -> "Illegal Function"
          [] code = 2 -> "Illegal Data Address"
          [] code = 3 -> "Illegal Data Value"
          [] code = 4 -> "Slave Device Failure"
          [] code = 5 -> "Acknowledge"
          [] code = 6 -> "Slave Device Busy"
          [] code = 8 -> "Memory Parity Error"
          [] code = 10 -> "Gateway Path Unavailable"
          [] code = 11 -> "Gateway Target Device Failed to Respond"]

\* the digits of f"{code:02X}" and of f"{code:X}"
HexDigit == << "0", "1", "2", "3", "4", "5", "6", "7",
               "8", "9", "A", "B", "C", "D", "E", "F" >>
Hex02(code) == HexDigit[(code \div 16) + 1] \o HexDigit[(code % 16) + 1]
Hex(code) == IF code < 16 THEN HexDigit[code + 1] ELSE Hex02(code)

\* the fallback message without the zero padding of the code
get_modbus_exception_message_unpadded(code) ==
    IF code \in DOMAIN MODBUS_EXCEPTION_CODES THEN MODBUS_EXCEPTION_CODES[code]
    ELSE "Unknown Exception (0x" \o Hex(code) \o ")"

\* MODBUS_EXCEPTION_CODES.get(code, f"Unknown Exception (0x{code:02X})")
get_modbus_exception_message(code) ==
    IF code \in DOMAIN MODBUS_EXCEPTION_CODES THEN MODBUS_EXCEPTION_CODES[code]
    ELSE "Unknown Exception (0x" \o Hex02(code) \o ")"

\* ModbusError(get_modbus_exception_message(exception_code),
\*             function_code=function_code & 0x7F, exception_code=exception_code)
\* with exception_code = byte_count  (client.py:256-263)
ModbusError(fc, exception_code) ==
    [Raise("ModbusError") EXCEPT
        !.message = get_modbus_exception_message(exception_code),
        !.function_code = fc % 128,
        !.exception_code = exception_code]

Branch(t) ==
    /\ pc[t] = "header"
    /\ pc' = [pc EXCEPT ![t] =
                IF IsException(function_code(t)) THEN "read_crc" ELSE "read_payload"]
    /\ UNCHANGED << others, call, request, header, remaining, ops, outcome,
                    _serial, is_open, rxbuf, wire >>

\* the exception branch raising without reading the two checksum bytes
ReadCrc_unread(t) ==
    /\ pc[t] = "read_crc"
    /\ Fail(t, ModbusError(function_code(t), byte_count(t)))
    /\ UNCHANGED << others, call, request, header, remaining, ops,
                    _serial, is_open, rxbuf, wire >>

\* the exception branch checking the two checksum bytes it has read
ReadCrc_checked(t) ==
    /\ pc[t] = "read_crc"
    /\ \/ SerialGone(t)
       \/ /\ _serial # NoSerial
          /\ Log(t, "read", 2)
          /\ LET k == IF Len(rxbuf) >= 2 THEN 2 ELSE Len(rxbuf)
             IN  /\ remaining' = [remaining EXCEPT ![t] = SubSeq(rxbuf, 1, k)]
                 /\ rxbuf' = SubSeq(rxbuf, k + 1, Len(rxbuf))
                 /\ Fail(t, IF k < 2 THEN Raise("TimeoutError")
                            ELSE IF ~verify_crc(header[t] \o SubSeq(rxbuf, 1, k))
                            THEN Raise("CRCError")
                            ELSE ModbusError(function_code(t), byte_count(t)))
          /\ UNCHANGED << others, call, request, header, _serial, is_open, wire >>

\* crc_bytes = self._serial.read(2); raise ModbusError  (client.py:256-263)
ReadCrc(t) ==
    /\ pc[t] = "read_crc"
    /\ \/ SerialGone(t)
       \/ /\ _serial # NoSerial
          /\ Log(t, "read", 2)
          /\ LET k == IF Len(rxbuf) >= 2 THEN 2 ELSE Len(rxbuf)
             IN  /\ remaining' = [remaining EXCEPT ![t] = SubSeq(rxbuf, 1, k)]
                 /\ rxbuf' = SubSeq(rxbuf, k + 1, Len(rxbuf))
          /\ Fail(t, ModbusError(function_code(t), byte_count(t)))
          /\ UNCHANGED << others, call, request, header, _serial, is_open, wire >>

\* ReadPayload asking for the payload without its two checksum bytes
ReadPayload_without_crc(t) ==
    /\ pc[t] = "read_payload"
    /\ \/ SerialGone(t)
       \/ /\ _serial # NoSerial
          /\ LET n == byte_count(t)
             IN  /\ Log(t, "read", n)
                 /\ IF Len(rxbuf) >= n
                    THEN /\ remaining' = [remaining EXCEPT ![t] = SubSeq(rxbuf, 1, n)]
                         /\ rxbuf' = SubSeq(rxbuf, n + 1, Len(rxbuf))
                         /\ pc' = [pc EXCEPT ![t] = "verify"]
                         /\ UNCHANGED outcome
                    ELSE /\ remaining' = [remaining EXCEPT ![t] = rxbuf]
                         /\ rxbuf' = << >>
                         /\ Fail(t, Raise("TimeoutError"))
          /\ UNCHANGED << others, call, request, header, _serial, is_open, wire >>

\* remaining = self._serial.read(byte_count + 2)  (client.py:266-268)
ReadPayload(t) ==
    /\ pc[t] = "read_payload"
    /\ \/ SerialGone(t)
       \/ /\ _serial # NoSerial
          /\ LET n == byte_count(t) + 2
             IN  /\ Log(t, "read", n)
                 /\ IF Len(rxbuf) >= n
                    THEN /\ remaining' = [remaining EXCEPT ![t] = SubSeq(rxbuf, 1, n)]
                         /\ rxbuf' = SubSeq(rxbuf, n + 1, Len(rxbuf))
                         /\ pc' = [pc EXCEPT ![t] = "verify"]
                         /\ UNCHANGED outcome
                    ELSE /\ remaining' = [remaining EXCEPT ![t] = rxbuf]
                         /\ rxbuf' = << >>
                         /\ Fail(t, Raise("TimeoutError"))
          /\ UNCHANGED << others, call, request, header, _serial, is_open, wire >>

\* response = header + remaining; verify_crc(response)  (client.py:270-275)
Verify(t) ==
    /\ pc[t] = "verify"
    /\ IF verify_crc(header[t] \o remaining[t])
       THEN pc' = [pc EXCEPT ![t] = "return"] /\ UNCHANGED outcome
       ELSE Fail(t, Raise("CRCError"))
    /\ UNCHANGED << others, call, request, header, remaining, ops,
                    _serial, is_open, rxbuf, wire >>

(* ------------------- decoding in the API functions --------------------- *)

\* for i in range(0, len(data), 2): struct.unpack(">H", data[i:i+2]), for
\* data of even length  (client.py:297-300)
unpack_words(data) ==
    [i \in 1..(Len(data) \div 2) |-> UnpackBE16(SubSeq(data, (2 * i) - 1, 2 * i))]

\* read_registers(start_address, count) given the payload of _send_request:
\* struct.unpack(">H", one byte) raises struct.error
read_registers(data) ==
    IF Len(data) % 2 = 1 THEN Raise("struct.error")
    ELSE [NoOutcome EXCEPT !.kind = "ok", !.values = unpack_words(data)]

\* Finish with get_load_state reporting on for every non-zero word
Finish_nonzero(c, data) ==
    LET r == read_registers(data)
    IN  CASE c.op = "read_registers" -> r
          [] c.op \in {"write_register", "set_load"} ->
               [NoOutcome EXCEPT !.kind = "ok"]
          [] c.op = "get_load_state" ->
               IF r.kind # "ok" THEN r
               ELSE IF Len(r.values) < 1 THEN Raise("IndexError")
               ELSE [r EXCEPT !.flag = (r.values[1] # 0)]
          [] c.op = "read_realtime_data" ->
               IF r.kind # "ok" THEN r
               ELSE IF Len(r.values) < 11 THEN Raise("IndexError")
               ELSE [r EXCEPT !.flag = (r.values[11] # 0)]

\* what the API call returns or raises once _send_request has returned data
Finish(c, data) ==
    LET r == read_registers(data)
    IN  CASE c.op = "read_registers" -> r
          [] c.op \in {"write_register", "set_load"} ->
               [NoOutcome EXCEPT !.kind = "ok"]
          [] c.op = "get_load_state" ->
               IF r.kind # "ok" THEN r
               ELSE IF Len(r.values) < 1 THEN Raise("IndexError")
               ELSE [r EXCEPT !.flag = (r.values[1] = 1)]
          [] c.op = "read_realtime_data" ->
               IF r.kind # "ok" THEN r
               ELSE IF Len(r.values) < 11 THEN Raise("IndexError")
               ELSE [r EXCEPT !.flag = (r.values[11] = 1)]

\* return remaining[:byte_count]  (client.py:278) and the caller's decoding;
\* the data field of the outcome keeps what _send_request returned
Return(t) ==
    /\ pc[t] = "return"
    /\ pc' = [pc EXCEPT ![t] = "complete"]
    /\ LET data == SubSeq(remaining[t], 1, byte_count(t))
       IN  outcome' = [outcome EXCEPT ![t] = [Finish(call[t], data) EXCEPT !.data = data]]
    /\ UNCHANGED << others, call, request, header, remaining, ops,
                    _serial, is_open, rxbuf, wire >>

\* the API call has returned or raised; the thread is free for its next call
Done(t) ==
    /\ pc[t] \in {"complete", "failed"}
    /\ pc' = [pc EXCEPT ![t] = "idle"]
    /\ call' = [call EXCEPT ![t] = NoCall]
    /\ request' = [request EXCEPT ![t] = << >>]
    /\ header' = [header EXCEPT ![t] = << >>]
    /\ remaining' = [remaining EXCEPT ![t] = << >>]
    /\ ops' = [ops EXCEPT ![t] = << >>]
    /\ outcome' = [outcome EXCEPT ![t] = NoOutcome]
    /\ UNCHANGED << others, _serial, is_open, rxbuf, wire >>

(* ------------------------------ the line ------------------------------- *)

\* the rest of the device's answer reaches the input buffer (no byte arrives
\* in the instant between reset_input_buffer() and write() of one call)
Arrive ==
    /\ wire # << >>
    /\ \A t \in Threads : pc[t] # "write"
    /\ rxbuf' = rxbuf \o wire
    /\ wire' = << >>
    /\ UNCHANGED << others, pc, call, request, header, remaining, ops, outcome,
                    _serial, is_open >>

\* the rest of the device's answer never arrives
Lose ==
    /\ wire # << >>
    /\ wire' = << >>
    /\ UNCHANGED << others, pc, call, request, header, remaining, ops, outcome,
                    _serial, is_open, rxbuf >>

(* --------------------------- specifications ---------------------------- *)

Transaction(t) ==
    \/ ResetInputBuffer(t)
    \/ Write(t)
    \/ ReadHeader(t)
    \/ Branch(t)
    \/ ReadCrc(t)
    \/ ReadPayload(t)
    \/ Verify(t)
    \/ Return(t)

Next ==
    \/ connect(MainThread)
    \/ disconnect(MainThread)
    \/ \E c \in ApiCalls : Call(MainThread, c)
    \/ Transaction(MainThread)
    \/ Done(MainThread)
    \/ Arrive
    \/ Lose

\* one thread uses the client, as the engine is written for
Spec == Init /\ [][Next]_vars

\* every transport call of a transaction returns (serial.read returns at its
\* deadline at the latest), so a started transaction keeps taking steps
FairSpec == Spec /\ WF_vars(Transaction(MainThread))

\* two threads share one client: thread 1 polls two registers while thread 2
\* switches the load on
ThreadCall(t) ==
    IF t = 1 THEN [op |-> "read_registers", address |-> 256, arg |-> 2]
    ELSE [op |-> "set_load", address |-> 0, arg |-> 1]

\* the transaction steps against a device that works
GoodTransaction(t) ==
    \/ ResetInputBuffer(t)
    \/ WriteTo(t, GoodResponses(request[t]))
    \/ ReadHeader(t)
    \/ Branch(t)
    \/ ReadCrc(t)
    \/ ReadPayload(t)
    \/ Verify(t)
    \/ Return(t)

NextThreads ==
    \/ \E t \in Threads : connect(t)
    \/ \E t \in Threads : disconnect(t)
    \/ \E t \in Threads : Call(t, ThreadCall(t))
    \/ \E t \in Threads : GoodTransaction(t)
    \/ \E t \in Threads : Done(t)
    \/ Arrive
    \/ Lose

\* the client has no lock: the steps of the two threads interleave freely
SpecThreads == Init /\ [][NextThreads]_vars

\* the calls made on the client inside and outside with blocks
WithCalls ==
    { [op |-> "get_load_state", address |-> 0, arg |-> 0],
      [op |-> "set_load", address |-> 0, arg |-> 1] }

NextWith ==
    \/ connect(MainThread)
    \/ disconnect(MainThread)
    \/ __enter__(MainThread)
    \/ __exit__(MainThread)
    \/ \E c \in WithCalls : Call(MainThread, c)
    \/ Transaction(MainThread)
    \/ Done(MainThread)
    \/ Arrive
    \/ Lose
    \/ Finalize

\* one thread uses the client with and without with blocks, connecting it
\* any number of times
SpecWith == Init /\ [][NextWith]_vars

(* -------------------------- float arithmetic --------------------------- *)

\* A Python float is an IEEE-754 double: 0.0, or mant * 2^exp with a 53-bit
\* mantissa mant (a sequence of bits, the first of them 1).
Zero == [mant |-> [i \in 1..53 |-> 0], exp |-> 0]

\* the w bits of n, most significant first
Bits(n, w) == [i \in 1..w |-> (n \div (2 ^ (w - i))) % 2]

\* bits without its leading zeros
StripZeros(bits) ==
    LET first == CHOOSE k \in 1..(Len(bits) + 1) :
                    /\ \A j \in 1..(k - 1) : bits[j] = 0
                    /\ k <= Len(bits) => bits[k] = 1
    IN  SubSeq(bits, first, Len(bits))

\* the 53-bit mantissa mant plus one: mant * 2^exp rounded up
Increment(mant, exp) ==
    IF \A i \in 1..53 : mant[i] = 1
    THEN [mant |-> [i \in 1..53 |-> IF i = 1 THEN 1 ELSE 0], exp |-> exp + 1]
    ELSE LET last == CHOOSE k \in 1..53 :
                        mant[k] = 0 /\ \A j \in (k + 1)..53 : mant[j] = 1
         IN  [mant |-> [i \in 1..53 |->
                          IF i < last THEN mant[i] ELSE IF i = last THEN 1 ELSE 0],
              exp |-> exp]

\* round to nearest, ties to even: the double nearest to (sig + f) * 2^exp,
\* where sig is a sequence of bits without leading zeros and 0 <= f < 1 with
\* f > 0 exactly when sticky
Round(sig, sticky, exp) ==
    IF Len(sig) = 0 THEN Zero
    ELSE IF Len(sig) <= 53
    THEN [mant |-> sig \o [i \in 1..(53 - Len(sig)) |-> 0],
          exp |-> exp - (53 - Len(sig))]
    ELSE LET mant == SubSeq(sig, 1, 53)
             more == sticky \/ \E i \in 55..Len(sig) : sig[i] = 1
             up == sig[54] = 1 /\ (more \/ mant[53] = 1)
         IN  IF up THEN Increment(mant, exp + (Len(sig) - 53))
             ELSE [mant |-> mant, exp |-> exp + (Len(sig) - 53)]

\* the float literals 0.1 and 0.01: the doubles nearest to 1/10 and 1/100,
\* 3602879701896397 * 2^-55 and 5764607523034235 * 2^-59, their numerators
\* in four 14-bit digits
Float_0_1 == [digits |-> << 819, 3276, 13107, 3277 >>, exp |-> -55]
Float_0_01 == [digits |-> << 1310, 11796, 7864, 5243 >>, exp |-> -59]

\* word * scale, a 16-bit int times a float: the exact product, rounded once
Times(word, scale) ==
    LET c == scale.digits
        t0 == word * c[4]
        t1 == (word * c[3]) + (t0 \div 16384)
        t2 == (word * c[2]) + (t1 \div 16384)
        t3 == (word * c[1]) + (t2 \div 16384)
        product == Bits(t3, 31) \o Bits(t2 % 16384, 14)
                     \o Bits(t1 % 16384, 14) \o Bits(t0 % 16384, 14)
    IN  IF word = 0 THEN Zero
        ELSE Round(StripZeros(product), FALSE, scale.exp)

(* ------------------ functions applied to arguments --------------------- *)

\* the state of the client, which the functions do not touch
client == << pc, call, request, header, remaining, ops, outcome,
             _serial, is_open, rxbuf, wire, info, _device_info, with_block,
             reading >>

Returned(v) == [done |-> TRUE, value |-> v]

\* byte values and buffers the CRC functions are applied to
SampleBytes == { 0, 1, 85, 255 }
Buffers == UNION { [1..n -> SampleBytes] : n \in 0..MaxLen }

\* register addresses and counts / values of the request frames
SampleAddresses == { 0, 12, 256, 266, 4660, 65535 }
SampleWords == { 0, 1, 11, 255, 256, 43981, 65535 }

CrcInputs ==
    { [fn |-> f, data |-> m] :
        f \in { "calculate_crc16", "verify_crc", "append_crc" }, m \in Buffers }

FrameInputs ==
    { [fn |-> f, data |-> << a, v >>] :
        f \in { "read_registers", "write_register" },
        a \in SampleAddresses, v \in SampleWords }

\* crc = calculate_crc16(data)
CalculateCrc16 ==
    /\ input.fn = "calculate_crc16"
    /\ ~output.done
    /\ output' = Returned(calculate_crc16(input.data))
    /\ UNCHANGED << client, input >>

\* frame += struct.pack("<H", crc): the sender appends the checksum of its
\* message, the frame is what the receiver will verify
AppendCrc ==
    /\ input.fn = "append_crc"
    /\ input' = [fn |-> "verify_frame",
                 data |-> input.data \o PackLE16(calculate_crc16(input.data))]
    /\ UNCHANGED << client, output >>

\* verify_crc(data) on a received buffer
VerifyCrc ==
    /\ input.fn \in { "verify_crc", "verify_frame" }
    /\ ~output.done
    /\ output' = Returned(verify_crc(input.data))
    /\ UNCHANGED << client, input >>

\* the request frame read_registers / write_register hand to _send_request
BuildFrame ==
    /\ input.fn \in { "read_registers", "write_register" }
    /\ ~output.done
    /\ output' = Returned(RequestOf([op |-> input.fn, address |-> input.data[1],
                                      arg |-> input.data[2]]))
    /\ UNCHANGED << client, input >>

\* headers of exception responses: function code 0x83 or 0x86, any code
ExceptionInputs ==
    { [fn |-> "exception_response", data |-> << device_id, fc, code >>] :
        fc \in { 131, 134 }, code \in 0..255 }

\* the exception branch of _send_request on a received header: the error it
\* raises  (client.py:254-263)
RaiseModbusError ==
    /\ input.fn = "exception_response"
    /\ IsException(input.data[2])
    /\ ~output.done
    /\ output' = Returned(ModbusError(input.data[2], input.data[3]))
    /\ UNCHANGED << client, input >>

Inputs == CrcInputs \cup FrameInputs \cup ExceptionInputs

InitFunctions ==
    /\ InitClient
    /\ input \in Inputs
    /\ output = NoOutput

NextFunctions ==
    \/ CalculateCrc16
    \/ AppendCrc
    \/ VerifyCrc
    \/ BuildFrame
    \/ RaiseModbusError

\* the pure functions of the package, each applied once to its arguments
SpecFunctions == InitFunctions /\ [][NextFunctions]_vars

(* ------------------------- decoding of registers ----------------------- *)

\* a temperature byte kept as read, never made negative
signed8_unsigned(temp) == temp

\* if temp > 127: temp -= 256  (client.py:384-387)
signed8(temp) == IF temp > 127 THEN temp - 256 ELSE temp

\* the RenogyReading read_realtime_data fills from the 11 words of the block
\* at 0x0100  (client.py:375-402)
realtime_reading(data) ==
    LET temp_reg == data[4]
        controller_temp == (temp_reg \div 256) % 256
        battery_temp == temp_reg % 256
    IN  [battery |-> [state_of_charge |-> data[1],
                      voltage |-> Times(data[2], Float_0_1),
                      current |-> Times(data[3], Float_0_01),
                      temperature |-> signed8(battery_temp)],
         controller |-> [temperature |-> signed8(controller_temp)],
         load |-> [voltage |-> Times(data[5], Float_0_1),
                   current |-> Times(data[6], Float_0_01),
                   power |-> data[7],
                   is_on |-> (data[11] = 1)],
         solar |-> [voltage |-> Times(data[8], Float_0_1),
                    current |-> Times(data[9], Float_0_01),
                    power |-> data[10]]]

\* a block whose temperature word and load-switch word are both word
SweepBlock(word) == << 0, 0, 0, word, 0, 0, 0, 0, 0, 0, word >>

\* blocks of 11 words read at 0x0100
RealtimeBlocks ==
    { b \in DeviceBlocks : Len(b) = 11 }
      \cup { << 100, 800, 1500, 2565, 120, 150, 18, 3, 1, 0, 0 >> }

\* read_realtime_data once read_registers(0x0100, 11) has returned the block
DecodeRealtime ==
    /\ input.fn = "read_realtime_data"
    /\ ~output.done
    /\ output' = Returned(realtime_reading(input.data))
    /\ UNCHANGED << client, input >>

\* get_load_state once the device has answered with the word of 0x010A
DecodeLoadState ==
    /\ input.fn = "get_load_state"
    /\ ~output.done
    /\ output' = Returned(Finish([op |-> "get_load_state", address |-> 0, arg |-> 0],
                                  PackBE16(input.data[1])))
    /\ UNCHANGED << client, input >>

\* the arguments: a block of RealtimeBlocks, or any 16-bit word as the
\* temperature and load-switch word of a block or as the word of 0x010A
InitDecode ==
    /\ InitClient
    /\ \/ \E b \in RealtimeBlocks :
             input = [fn |-> "read_realtime_data", data |-> b]
       \/ \E word \in 0..65535 :
             \/ input = [fn |-> "read_realtime_data", data |-> SweepBlock(word)]
             \/ input = [fn |-> "get_load_state", data |-> << word >>]
    /\ output = NoOutput

NextDecode ==
    \/ DecodeRealtime
    \/ DecodeLoadState

\* the decoding of register words, applied once to each block
SpecDecode == InitDecode /\ [][NextDecode]_vars

(* --------------------------- read_device_info -------------------------- *)

\* b"".join(struct.pack(">H", v) for v in data)  (client.py:338, 346)
pack_words(data) == WordsToBytes(data)

\* bytes.decode("ascii", errors="ignore"): the bytes above 0x7F are dropped
decode_ascii_ignore(bytes) == SelectSeq(bytes, LAMBDA b : b < 128)

\* str.strip(chars): the leading and the trailing characters of chars go
strip_chars(s, chars) ==
    LET keep == { i \in 1..Len(s) : s[i] \notin chars }
    IN  IF keep = {} THEN << >>
        ELSE SubSeq(s, CHOOSE i \in keep : \A j \in keep : i <= j,
                       CHOOSE i \in keep : \A j \in keep : j <= i)

\* the characters str.strip() removes: str.isspace() below 0x80
Whitespace == (9..13) \cup (28..32)

\* bytes.decode("ascii", errors="ignore").strip("\x00").strip()
\* (client.py:339, 347)
decode_text(data) ==
    strip_chars(strip_chars(decode_ascii_ignore(pack_words(data)), { 0 }),
                Whitespace)

\* f"{n}" for n in 0..255, as character codes
decimal(n) ==
    IF n < 10 THEN << 48 + n >>
    ELSE IF n < 100 THEN << 48 + (n \div 10), 48 + (n % 10) >>
    ELSE << 48 + (n \div 100), 48 + ((n \div 10) % 10), 48 + (n % 10) >>

\* f"V{word >> 8}.{word & 0xFF}"  (client.py:354-355)
version_string(word) ==
    << 86 >> \o decimal(word \div 256) \o << 46 >> \o decimal(word % 256)

\* the three read_registers calls of read_device_info, in order
\* (client.py:337, 345, 353)
FieldReads ==
    << [op |-> "read_registers", address |-> 12, arg |-> 8],
       [op |-> "read_registers", address |-> 24, arg |-> 8],
       [op |-> "read_registers", address |-> 20, arg |-> 4] >>

\* the body of try block i given how its read_registers call ended: an
\* exception of the read or of the decoding leaves the block, the fields
\* assigned before it keep their values  (client.py:335-357)
try_block(i, d, o) ==
    CASE i = 1 -> IF o.kind # "ok" THEN d
                  ELSE [d EXCEPT !.model = decode_text(o.values)]
      [] i = 2 -> IF o.kind # "ok" THEN d
                  ELSE [d EXCEPT !.serial_number = decode_text(o.values)]
      [] i = 3 -> IF o.kind # "ok" \/ Len(o.values) < 1 THEN d
                  ELSE IF Len(o.values) < 3
                  THEN [d EXCEPT !.hardware_version = version_string(o.values[1])]
                  ELSE [d EXCEPT !.hardware_version = version_string(o.values[1]),
                                 !.software_version = version_string(o.values[3])]

\* register blocks the device may report for the device information
InfoBlocks ==
    { << 19788, 12852, 12848, 0, 0, 0, 0, 0 >>,
      << 8224, 21070, 65351, 49, 8192, 0, 0, 0 >>,
      << 258, 0, 2580, 0 >>,
      << 65535, 0, 256, 0 >> }

\* what the device may answer to a read request of read_device_info:
\* nothing, the block asked for, a frame with a wrong checksum, an exception,
\* a frame with no, with one or with half a register
InfoResponses(req) ==
    LET fc == req[2]
        blocks == { b \in InfoBlocks : Len(b) = UnpackBE16(SubSeq(req, 5, 6)) }
        normal(b) == << device_id, fc, 2 * Len(b) >> \o WordsToBytes(b)
    IN  { << >> }
          \cup { WithCrc(normal(b)) : b \in blocks }
          \cup { BadCrc(normal(b)) : b \in blocks }
          \cup { WithCrc(<< device_id, fc + 128, 2 >>),
                 WithCrc(<< device_id, fc, 0 >>),
                 WithCrc(<< device_id, fc, 2, 1, 2 >>),
                 WithCrc(<< device_id, fc, 1, 85 >>) }

\* read_device_info is entered: info = DeviceInfo()  (client.py:333)
read_device_info(t) ==
    /\ pc[t] = "idle"
    /\ ~info[t].active
    /\ info' = [info EXCEPT ![t] = [active |-> TRUE, field |-> 1,
                                    reads |-> << >>, info |-> DeviceInfo]]
    /\ UNCHANGED << pc, call, request, header, remaining, ops, outcome,
                    _serial, is_open, rxbuf, wire, _device_info, with_block, reading,
                    input, output >>

\* the read_registers call of the current try block is entered
ReadField(t) ==
    /\ info[t].active
    /\ info[t].field \in 1..3
    /\ Call(t, FieldReads[info[t].field])

\* the error of a client that is not connected leaves read_device_info
LeaveTry_not_connected(t) ==
    /\ info[t].active
    /\ pc[t] \in {"complete", "failed"}
    /\ info' = [info EXCEPT ![t] =
                  [@ EXCEPT !.field = IF outcome[t].kind = "CommunicationError"
                                      THEN 4 ELSE @ + 1,
                            !.reads = Append(@, [call |-> call[t], outcome |-> outcome[t]]),
                            !.info = try_block(info[t].field, @, outcome[t])]]
    /\ pc' = [pc EXCEPT ![t] = "idle"]
    /\ call' = [call EXCEPT ![t] = NoCall]
    /\ request' = [request EXCEPT ![t] = << >>]
    /\ header' = [header EXCEPT ![t] = << >>]
    /\ remaining' = [remaining EXCEPT ![t] = << >>]
    /\ ops' = [ops EXCEPT ![t] = << >>]
    /\ outcome' = [outcome EXCEPT ![t] = NoOutcome]
    /\ UNCHANGED << _serial, is_open, rxbuf, wire, _device_info, with_block, reading,
                    input, output >>

\* a failed read aborts the call: the error leaves read_device_info
LeaveTry_abort(t) ==
    /\ info[t].active
    /\ pc[t] \in {"complete", "failed"}
    /\ info' = [info EXCEPT ![t] =
                  [@ EXCEPT !.field = IF pc[t] = "failed" THEN 4 ELSE @ + 1,
                            !.reads = Append(@, [call |-> call[t], outcome |-> outcome[t]]),
                            !.info = try_block(info[t].field, @, outcome[t])]]
    /\ pc' = [pc EXCEPT ![t] = "idle"]
    /\ call' = [call EXCEPT ![t] = NoCall]
    /\ request' = [request EXCEPT ![t] = << >>]
    /\ header' = [header EXCEPT ![t] = << >>]
    /\ remaining' = [remaining EXCEPT ![t] = << >>]
    /\ ops' = [ops EXCEPT ![t] = << >>]
    /\ outcome' = [outcome EXCEPT ![t] = NoOutcome]
    /\ UNCHANGED << _serial, is_open, rxbuf, wire, _device_info, with_block, reading,
                    input, output >>

\* the read_registers call of the current try block has returned or raised:
\* the rest of the block runs or "except Exception" swallows the error, and
\* the next block follows; reads keeps how each read ended
LeaveTry(t) ==
    /\ info[t].active
    /\ pc[t] \in {"complete", "failed"}
    /\ info' = [info EXCEPT ![t] =
                  [@ EXCEPT !.field = @ + 1,
                            !.reads = Append(@, [call |-> call[t], outcome |-> outcome[t]]),
                            !.info = try_block(info[t].field, @, outcome[t])]]
    /\ pc' = [pc EXCEPT ![t] = "idle"]
    /\ call' = [call EXCEPT ![t] = NoCall]
    /\ request' = [request EXCEPT ![t] = << >>]
    /\ header' = [header EXCEPT ![t] = << >>]
    /\ remaining' = [remaining EXCEPT ![t] = << >>]
    /\ ops' = [ops EXCEPT ![t] = << >>]
    /\ outcome' = [outcome EXCEPT ![t] = NoOutcome]
    /\ UNCHANGED << _serial, is_open, rxbuf, wire, _device_info, with_block, reading,
                    input, output >>

\* self._device_info = info; return info  (client.py:359-360): the call is
\* over, info[t] keeps what it returned until the next call
ReturnInfo(t) ==
    /\ info[t].active
    /\ info[t].field = 4
    /\ pc[t] = "idle"
    /\ _device_info' = info[t].info
    /\ info' = [info EXCEPT ![t].active = FALSE]
    /\ UNCHANGED << pc, call, request, header, remaining, ops, outcome,
                    _serial, is_open, rxbuf, wire, with_block, reading, input, output >>

\* the transaction steps of a read of read_device_info
InfoTransaction(t) ==
    \/ ResetInputBuffer(t)
    \/ WriteTo(t, InfoResponses(request[t]))
    \/ ReadHeader(t)
    \/ Branch(t)
    \/ ReadCrc(t)
    \/ ReadPayload(t)
    \/ Verify(t)
    \/ Return(t)

\* the caller connects a client that is not connected, disconnects, and
\* reads the device information once; it does nothing else while
\* read_device_info runs
NextInfo ==
    \/ ~info[MainThread].active /\ ~is_connected /\ connect(MainThread)
    \/ ~info[MainThread].active /\ disconnect(MainThread)
    \/ _device_info = NoDeviceInfo /\ read_device_info(MainThread)
    \/ ReadField(MainThread)
    \/ InfoTransaction(MainThread)
    \/ LeaveTry(MainThread)
    \/ ReturnInfo(MainThread)
    \/ Arrive
    \/ Lose

SpecInfo == Init /\ [][NextInfo]_vars

(* ------------------------------- read_all ------------------------------ *)

\* self.read_realtime_data(): its read_registers(0x0100, 11)
RealtimeCall == [op |-> "read_realtime_data", address |-> 0, arg |-> 0]

\* what the device answers to a read request here: nothing, or the block
\* asked for
AllResponses(req) ==
    LET blocks == { b \in DeviceBlocks \cup InfoBlocks :
                      Len(b) = UnpackBE16(SubSeq(req, 5, 6)) }
    IN  { << >> }
          \cup { WithCrc(<< device_id, req[2], 2 * Len(b) >> \o WordsToBytes(b)) :
                   b \in blocks }

\* read_all that reads the device info again when the cached one has only
\* empty fields
read_all_refetch_empty(t, include_device_info) ==
    /\ pc[t] = "idle"
    /\ ~info[t].active
    /\ ~reading[t].active
    /\ IF include_device_info /\ _device_info \in { NoDeviceInfo, DeviceInfo }
       THEN /\ reading' = [reading EXCEPT ![t] =
                             [active |-> TRUE, stage |-> "device_info",
                              include_device_info |-> include_device_info,
                              device_info |-> DeviceInfo]]
            /\ info' = [info EXCEPT ![t] = [active |-> TRUE, field |-> 1,
                                            reads |-> << >>, info |-> DeviceInfo]]
       ELSE /\ reading' = [reading EXCEPT ![t] =
                             [active |-> TRUE, stage |-> "realtime",
                              include_device_info |-> include_device_info,
                              device_info |-> DeviceInfo]]
            /\ UNCHANGED info
    /\ UNCHANGED << pc, call, request, header, remaining, ops, outcome,
                    _serial, is_open, rxbuf, wire, _device_info, with_block,
                    input, output >>

\* read_all is entered: if include_device_info and not self._device_info,
\* read_device_info() is entered (None is false, a DeviceInfo object is true
\* whatever its fields); otherwise read_realtime_data() is next
\* (client.py:423-426)
read_all(t, include_device_info) ==
    /\ pc[t] = "idle"
    /\ ~info[t].active
    /\ ~reading[t].active
    /\ IF include_device_info /\ _device_info = NoDeviceInfo
       THEN /\ reading' = [reading EXCEPT ![t] =
                             [active |-> TRUE, stage |-> "device_info",
                              include_device_info |-> include_device_info,
                              device_info |-> DeviceInfo]]
            /\ info' = [info EXCEPT ![t] = [active |-> TRUE, field |-> 1,
                                            reads |-> << >>, info |-> DeviceInfo]]
       ELSE /\ reading' = [reading EXCEPT ![t] =
                             [active |-> TRUE, stage |-> "realtime",
                              include_device_info |-> include_device_info,
                              device_info |-> DeviceInfo]]
            /\ UNCHANGED info
    /\ UNCHANGED << pc, call, request, header, remaining, ops, outcome,
                    _serial, is_open, rxbuf, wire, _device_info, with_block,
                    input, output >>

\* read_device_info() has returned to read_all  (client.py:424)
AfterDeviceInfo(t) ==
    /\ reading[t].active
    /\ reading[t].stage = "device_info"
    /\ ~info[t].active
    /\ info[t].field = 4
    /\ pc[t] = "idle"
    /\ reading' = [reading EXCEPT ![t].stage = "realtime"]
    /\ UNCHANGED << pc, call, request, header, remaining, ops, outcome,
                    _serial, is_open, rxbuf, wire, info, _device_info, with_block,
                    input, output >>

\* reading = self.read_realtime_data(): its read is entered  (client.py:426)
ReadRealtime(t) ==
    /\ reading[t].active
    /\ reading[t].stage = "realtime"
    /\ Call(t, RealtimeCall)

\* read_realtime_data has returned or raised: an error leaves read_all;
\* otherwise the cached device info, if there is one, is attached to the
\* reading (client.py:409-410, 428-429) and read_all returns
ReturnReading(t) ==
    /\ reading[t].active
    /\ reading[t].stage = "realtime"
    /\ pc[t] \in { "complete", "failed" }
    /\ reading' = [reading EXCEPT ![t] =
                     [@ EXCEPT !.active = FALSE,
                               !.stage = IF outcome[t].kind = "ok" THEN "returned"
                                         ELSE "raised",
                               !.device_info =
                                  IF outcome[t].kind = "ok" /\ _device_info # NoDeviceInfo
                                  THEN _device_info ELSE DeviceInfo]]
    /\ pc' = [pc EXCEPT ![t] = "idle"]
    /\ call' = [call EXCEPT ![t] = NoCall]
    /\ request' = [request EXCEPT ![t] = << >>]
    /\ header' = [header EXCEPT ![t] = << >>]
    /\ remaining' = [remaining EXCEPT ![t] = << >>]
    /\ ops' = [ops EXCEPT ![t] = << >>]
    /\ outcome' = [outcome EXCEPT ![t] = NoOutcome]
    /\ UNCHANGED << _serial, is_open, rxbuf, wire, info, _device_info, with_block,
                    input, output >>

\* the transaction steps of the reads of read_all and read_device_info
AllTransaction(t) ==
    \/ ResetInputBuffer(t)
    \/ WriteTo(t, AllResponses(request[t]))
    \/ ReadHeader(t)
    \/ Branch(t)
    \/ ReadCrc(t)
    \/ ReadPayload(t)
    \/ Verify(t)
    \/ Return(t)

\* no read_all and no read_device_info call is running
Outside(t) == ~info[t].active /\ ~reading[t].active

\* the caller connects a client that is not connected, disconnects, calls
\* read_all with and without device info any number of times, and calls
\* read_device_info itself while nothing is cached
NextAll ==
    \/ Outside(MainThread) /\ ~is_connected /\ connect(MainThread)
    \/ Outside(MainThread) /\ disconnect(MainThread)
    \/ \E include_device_info \in BOOLEAN : read_all(MainThread, include_device_info)
    \/ Outside(MainThread) /\ _device_info = NoDeviceInfo /\ read_device_info(MainThread)
    \/ ReadField(MainThread)
    \/ LeaveTry(MainThread)
    \/ ReturnInfo(MainThread)
    \/ AfterDeviceInfo(MainThread)
    \/ ReadRealtime(MainThread)
    \/ ReturnReading(MainThread)
    \/ AllTransaction(MainThread)
    \/ Arrive
    \/ Lose

SpecAll == Init /\ [][NextAll]_vars

(* ------------------------------ register map --------------------------- *)

\* RegisterDefinition(address, name, ..., length): the fields the register
\* map is laid out by  (registers.py:27-37)
RegisterDefinition(address, name, length) ==
    [address |-> address, name |-> name, length |-> length]

\* the groups of the register map, each as the sequence of its entries in
\* definition order (the order in which a dict is iterated)
DEVICE_INFO_REGISTERS ==
    << RegisterDefinition(12, "device_model", 8),
       RegisterDefinition(24, "serial_number", 8),
       RegisterDefinition(20, "hardware_version", 2),
       RegisterDefinition(22, "software_version", 2) >>

SCC_REGISTERS ==
    << RegisterDefinition(256, "battery_soc", 1),
       RegisterDefinition(257, "battery_voltage", 1),
       RegisterDefinition(258, "charging_current", 1),
       RegisterDefinition(259, "temperatures", 1),
       RegisterDefinition(260, "load_voltage", 1),
       RegisterDefinition(261, "load_current", 1),
       RegisterDefinition(262, "load_power", 1),
       RegisterDefinition(263, "solar_voltage", 1),
       RegisterDefinition(264, "solar_current", 1),
       RegisterDefinition(265, "solar_power", 1) >>

DAILY_STATS_REGISTERS ==
    << RegisterDefinition(267, "daily_min_battery_voltage", 1),
       RegisterDefinition(268, "daily_max_battery_voltage", 1),
       RegisterDefinition(269, "daily_max_charging_current", 1),
       RegisterDefinition(270, "daily_max_discharging_current", 1),
       RegisterDefinition(271, "daily_max_charging_power", 1),
       RegisterDefinition(272, "daily_max_discharging_power", 1),
       RegisterDefinition(273, "daily_charging_amp_hours", 1),
       RegisterDefinition(274, "daily_discharging_amp_hours", 1),
       RegisterDefinition(275, "daily_power_generation", 1),
       RegisterDefinition(276, "daily_power_consumption", 1) >>

HISTORICAL_STATS_REGISTERS ==
    << RegisterDefinition(277, "total_operating_days", 1),
       RegisterDefinition(278, "total_battery_over_discharges", 1),
       RegisterDefinition(279, "total_battery_full_charges", 1) >>

CONTROL_REGISTERS ==
    << RegisterDefinition(266, "load_switch", 1) >>

RegisterGroups ==
    { DEVICE_INFO_REGISTERS, SCC_REGISTERS, DAILY_STATS_REGISTERS,
      HISTORICAL_STATS_REGISTERS, CONTROL_REGISTERS }

\* max(registers.values(), key=lambda r: r.address + r.length): the first
\* entry, in iteration order, that no entry ends above
max_reg(registers) ==
    LET end(r) == r.address + r.length
    IN  registers[CHOOSE i \in 1..Len(registers) :
            /\ \A j \in 1..Len(registers) : end(registers[j]) <= end(registers[i])
            /\ \A j \in 1..(i - 1) : end(registers[j]) < end(registers[i])]

\* min(r.address for r in registers.values())
min_addr(registers) ==
    CHOOSE a \in { registers[i].address : i \in 1..Len(registers) } :
        \A i \in 1..Len(registers) : a <= registers[i].address

\* get_register_range taking the first entry for the lowest address
get_register_range_first_entry(registers) ==
    IF registers = << >> THEN << 0, 0 >>
    ELSE << registers[1].address,
            (max_reg(registers).address + max_reg(registers).length)
               - registers[1].address >>

\* get_register_range(registers)  (registers.py:286-302)
get_register_range(registers) ==
    IF registers = << >> THEN << 0, 0 >>
    ELSE << min_addr(registers),
            (max_reg(registers).address + max_reg(registers).length)
               - min_addr(registers) >>

\* the dict of the entries of group at the places of keep, in the order of
\* group
SubDict(group, keep) ==
    [i \in 1..Cardinality(keep) |->
        group[CHOOSE k \in keep : Cardinality({ j \in keep : j <= k }) = i]]

\* the dicts get_register_range is applied to: the groups and what remains
\* of a group when entries are left out, the empty dict included
RegisterDicts ==
    UNION { { SubDict(g, keep) : keep \in SUBSET (1..Len(g)) } : g \in RegisterGroups }

GetRegisterRange ==
    /\ input.fn = "get_register_range"
    /\ ~output.done
    /\ output' = Returned(get_register_range(input.data))
    /\ UNCHANGED << client, input >>

InitRegisters ==
    /\ InitClient
    /\ \E registers \in RegisterDicts :
          input = [fn |-> "get_register_range", data |-> registers]
    /\ output = NoOutput

NextRegisters == GetRegisterRange

\* get_register_range applied once to each dict
SpecRegisters == InitRegisters /\ [][NextRegisters]_vars

(* ------------------------------- claims -------------------------------- *)

\* header + remaining, the bytes a transaction has taken off the transport
Response(t) == header[t] \o remaining[t]

\* the last two bytes of frame are the CRC16 of the bytes before them, low
\* byte first (the wire format, written out independently of verify_crc)
ChecksumOnWire(frame) ==
    /\ Len(frame) >= 3
    /\ SubSeq(frame, Len(frame) - 1, Len(frame))
         = PackLE16(calculate_crc16(SubSeq(frame, 1, Len(frame) - 2)))

\* both reads of a normal (non-exception) response were satisfied
NormalFrameRead(t) ==
    /\ Len(header[t]) = 3
    /\ ~IsException(header[t][2])
    /\ Len(remaining[t]) = header[t][3] + 2

\* C1: a transaction returns data only if the checksum of header + payload +
\* checksum is valid; a normal response whose checksum is not valid fails
\* with CRCError and returns nothing; the data returned are exactly the
\* byte_count bytes that follow the 3-byte header.
C1_CrcGate ==
    \A t \in Threads :
        /\ pc[t] \in {"return", "complete"} =>
              /\ NormalFrameRead(t)
              /\ ChecksumOnWire(Response(t))
        /\ pc[t] = "complete" =>
              /\ Len(outcome[t].data) = header[t][3]
              /\ outcome[t].data = SubSeq(Response(t), 4, 3 + header[t][3])
        /\ (pc[t] = "failed" /\ NormalFrameRead(t)) =>
              /\ ~ChecksumOnWire(Response(t))
              /\ outcome[t].kind = "CRCError"
        /\ outcome[t].kind = "CRCError" =>
              /\ pc[t] = "failed"
              /\ NormalFrameRead(t)
              /\ ~ChecksumOnWire(Response(t))
        /\ pc[t] = "failed" =>
              /\ outcome[t].data = << >>
              /\ outcome[t].values = << >>

\* a read of one register has returned the payload 0x12 0x34
C1_Witness ==
    /\ pc[MainThread] = "complete"
    /\ Response(MainThread) = WithCrc(<< 1, 3, 2, 18, 52 >>)
    /\ outcome[MainThread].data = << 18, 52 >>

\* the device has answered the write-single request of thread t with the
\* echo frame (it equals the request frame), the frame has arrived, and both
\* reads of the transaction were satisfied from it
EchoRead(t) ==
    /\ call[t].op \in {"write_register", "set_load"}
    /\ pc[t] \in {"complete", "failed"}
    /\ Len(header[t]) = 3
    /\ Len(remaining[t]) = header[t][3] + 2
    /\ Response(t) \o rxbuf = request[t]

\* C2: a write-single request answered by the well-formed 8-byte echo frame
\* (which equals the request frame) completes without an error, and the
\* whole echo is taken off the transport.
C2_EchoAccepted ==
    \A t \in Threads :
        EchoRead(t) =>
            /\ pc[t] = "complete"
            /\ outcome[t].kind = "ok"
            /\ Response(t) = request[t]

\* C3: a header whose function code has bit 0x80 set makes the transaction
\* ask for exactly two more bytes and fail with ModbusError carrying the
\* third header byte as exception code; the two checksum bytes are taken off
\* the transport (5 bytes of the frame in total), and no data is returned.
C3_ExceptionState ==
    \A t \in Threads :
        (/\ Len(header[t]) = 3
         /\ IsException(header[t][2])
         /\ pc[t] \notin {"header", "read_crc"}) =>
            /\ pc[t] = "failed"
            /\ outcome[t].kind = "ModbusError"
            /\ outcome[t].exception_code = header[t][3]
            /\ outcome[t].function_code = header[t][2] - 128
            /\ outcome[t].data = << >>
            /\ outcome[t].values = << >>
            /\ ops[t] = << << "reset_input_buffer", 0 >>, << "write", 8 >>,
                           << "read", 3 >>, << "read", 2 >> >>

C3_ExceptionStep ==
    \A t \in Threads :
        (pc[t] = "read_crc" /\ pc'[t] # "read_crc") =>
            IF Len(rxbuf) >= 2
            THEN /\ remaining'[t] = SubSeq(rxbuf, 1, 2)
                 /\ rxbuf' = SubSeq(rxbuf, 3, Len(rxbuf))
                 /\ Len(header'[t] \o remaining'[t]) = 5
            ELSE /\ remaining'[t] = rxbuf
                 /\ rxbuf' = << >>

C4_Timeouts ==
    \A t \in Threads :
        /\ Len(ops[t]) >= 3 => ops[t][3] = << "read", 3 >>
        /\ (Len(ops[t]) >= 3 /\ Len(header[t]) < 3) =>
              /\ pc[t] = "failed"
              /\ outcome[t].kind = "TimeoutError"
              /\ Len(ops[t]) = 3
        /\ (Len(ops[t]) >= 4 /\ ~IsException(header[t][2])) =>
              /\ ops[t] = SubSeq(ops[t], 1, 3) \o << << "read", header[t][3] + 2 >> >>
              /\ Len(remaining[t]) < header[t][3] + 2 =>
                    /\ pc[t] = "failed"
                    /\ outcome[t].kind = "TimeoutError"
        /\ outcome[t].kind = "TimeoutError" =>
              /\ pc[t] = "failed"
              /\ \/ Len(ops[t]) = 3 /\ Len(header[t]) < 3
                 \/ /\ Len(ops[t]) = 4
                    /\ ~IsException(header[t][2])
                    /\ Len(remaining[t]) < header[t][3] + 2

\* the payload read of a 2-byte block came back with one byte
C4_Witness ==
    /\ pc[MainThread] = "failed"
    /\ outcome[MainThread].kind = "TimeoutError"
    /\ header[MainThread] = << 1, 3, 2 >>
    /\ Len(remaining[MainThread]) = 1
    /\ ops[MainThread][4] = << "read", 4 >>

\* C5: a transaction on a connected client discards the input buffer, then
\* writes the request, then reads the 3-byte header, then reads the rest, in
\* this order; the request frame is written exactly once per call whatever
\* the outcome.
C5_FixedOrder ==
    \A t \in Threads :
        LET order == << << "reset_input_buffer", 0 >>, << "write", 8 >>, << "read", 3 >> >>
            writes == { i \in 1..Len(ops[t]) : ops[t][i][1] = "write" }
        IN  /\ Len(ops[t]) <= 4
            /\ \A i \in 1..Len(ops[t]) :
                  IF i <= 3 THEN ops[t][i] = order[i] ELSE ops[t][i][1] = "read"
            /\ pc[t] = "flush" => ops[t] = << >>
            /\ pc[t] = "write" => Len(ops[t]) = 1
            /\ pc[t] = "read_header" => Len(ops[t]) = 2
            /\ pc[t] \in {"header", "read_crc", "read_payload"} => Len(ops[t]) = 3
            /\ pc[t] \in {"verify", "return", "complete"} => Len(ops[t]) = 4
            /\ (pc[t] \in {"complete", "failed"}
                  /\ outcome[t].kind # "CommunicationError") =>
                  /\ Cardinality(writes) = 1
                  /\ Len(request[t]) = 8
                  /\ Len(ops[t]) >= 3

\* a failed transaction (checksum mismatch) that went through all four
\* operations
C5_Witness ==
    /\ pc[MainThread] = "failed"
    /\ outcome[MainThread].kind = "CRCError"
    /\ Len(ops[MainThread]) = 4

\* thread t is between the flush of a transaction and its outcome
InFlight(t) ==
    pc[t] \in {"write", "read_header", "header", "read_crc", "read_payload",
               "verify", "return"}

\* C6: at most one transaction is in flight on the transport: the steps of
\* the transactions of two callers of one client never interleave.
C6_OneInFlight == Cardinality({ t \in Threads : InFlight(t) }) <= 1

\* the state of the exchange of thread t in the terms of the design
TxState(t) ==
    CASE pc[t] \in {"idle", "flush", "write"} -> "Idle"
      [] pc[t] = "read_header" -> "Sent"
      [] pc[t] \in {"header", "read_payload"} -> "HeaderReceived"
      [] pc[t] = "read_crc" -> "ExceptionDetected"
      [] pc[t] = "verify" -> "PayloadReceived"
      [] pc[t] = "return" -> "Validated"
      [] pc[t] = "complete" -> "Complete"
      [] pc[t] = "failed" -> "Failed"

\* the transitions of the design; Failed is entered from ExceptionDetected
\* and, on a timeout, from the two waits for a read (Sent, HeaderReceived)
DesignEdges ==
    { << "Idle", "Sent" >>, << "Sent", "HeaderReceived" >>,
      << "HeaderReceived", "ExceptionDetected" >>, << "ExceptionDetected", "Failed" >>,
      << "HeaderReceived", "PayloadReceived" >>, << "PayloadReceived", "Validated" >>,
      << "Validated", "Complete" >>,
      << "Sent", "Failed" >>, << "HeaderReceived", "Failed" >> }

\* the outcome has been handed to the caller, the next exchange is Idle
NextExchange == { << "Complete", "Idle" >>, << "Failed", "Idle" >> }

\* the step of thread t, if it changes the state of the exchange of a
\* connected client, follows one of edges
Follows(t, edges) ==
    (TxState(t)' # TxState(t) /\ outcome'[t].kind # "CommunicationError") =>
        << TxState(t), TxState(t)' >> \in edges

\* Failed(Timeout) is entered from a wait for a read only
TimeoutFromWait(t) ==
    (pc'[t] = "failed" /\ pc[t] # "failed" /\ outcome'[t].kind = "TimeoutError") =>
        pc[t] \in {"read_header", "read_payload"}

\* an exchange begins only when the thread's previous one is over
OneAtATime(t) ==
    /\ (pc'[t] = "flush" /\ pc[t] # "flush") => pc[t] = "idle"
    /\ (pc'[t] = "idle" /\ pc[t] # "idle") => pc[t] \in {"complete", "failed"}

\* C7 as stated: a transaction moves only along Idle -> Sent ->
\* HeaderReceived -> (ExceptionDetected -> Failed | PayloadReceived ->
\* Validated -> Complete), Failed(Timeout) being entered from a wait only.
C7_DesignTransitions ==
    [][\A t \in Threads : Follows(t, DesignEdges \cup NextExchange)
                           /\ TimeoutFromWait(t)]_vars

\* C7 amended: the transitions of the design and PayloadReceived -> Failed
\* (taken exactly on a checksum mismatch) are the only ones; Failed(Timeout)
\* is entered from a wait only; and a started transaction reaches Complete
\* or Failed before the next one begins.
C7_Transitions ==
    /\ [][\A t \in Threads :
            /\ Follows(t, DesignEdges \cup NextExchange
                            \cup { << "PayloadReceived", "Failed" >> })
            /\ (pc[t] = "verify" /\ pc'[t] = "failed") =>
                  outcome'[t].kind = "CRCError"
            /\ TimeoutFromWait(t)
            /\ OneAtATime(t)]_vars
    /\ \A t \in Threads :
          (pc[t] = "flush") ~> (pc[t] \in {"complete", "failed"})

\* a transaction has gone from PayloadReceived to Failed
C7_Witness ==
    /\ pc[MainThread] = "failed"
    /\ outcome[MainThread].kind = "CRCError"
    /\ NormalFrameRead(MainThread)

\* C8: a call on a client that is not connected fails with
\* CommunicationError before any discard, write or read on a transport.
C8_NotConnectedState ==
    \A t \in Threads :
        outcome[t].kind = "CommunicationError" =>
            /\ pc[t] = "failed"
            /\ ops[t] = << >>
            /\ header[t] = << >>
            /\ remaining[t] = << >>

C8_NotConnectedStep ==
    \A t \in Threads :
        (pc[t] = "idle" /\ pc'[t] # "idle" /\ ~is_connected) =>
            /\ pc'[t] = "failed"
            /\ outcome'[t].kind = "CommunicationError"
            /\ ops'[t] = << >>
            /\ rxbuf' = rxbuf
            /\ wire' = wire

C8_NotConnected == [] C8_NotConnectedState /\ [][C8_NotConnectedStep]_vars

\* a call has failed on a client that disconnect() has left without a
\* transport (an earlier transport of the client is still open)
C8_Witness ==
    /\ pc[MainThread] = "failed"
    /\ outcome[MainThread].kind = "CommunicationError"
    /\ _serial = NoSerial
    /\ is_open[1]

\* C9: a call succeeds or fails with one of the typed errors of the engine
\* (CommunicationError, TimeoutError, CRCError, ModbusError).
C9_TypedErrorsOnly ==
    \A t \in Threads :
        outcome[t].kind \in {"none", "ok", "CommunicationError", "TimeoutError",
                               "CRCError", "ModbusError"}

\* C10: a successful read_registers(start_address, count) returns exactly
\* count values, the i-th being the big-endian word of payload bytes 2i and
\* 2i+1 (counted from 0).
C10_CountValues ==
    \A t \in Threads :
        (/\ call[t].op = "read_registers"
         /\ pc[t] = "complete"
         /\ outcome[t].kind = "ok") =>
            /\ Len(outcome[t].values) = call[t].arg
            /\ \A i \in 1..Len(outcome[t].values) :
                  /\ outcome[t].values[i] \in 0..65535
                  /\ outcome[t].values[i] =
                        (256 * outcome[t].data[(2 * i) - 1]) + outcome[t].data[2 * i]

(* ------------------------------ CRC codec ------------------------------ *)

\* one bit of the bitwise CRC-16/MODBUS: shift right, and XOR the reflected
\* polynomial 0xA001 in when the bit shifted out is 1
reference_bit(acc) ==
    CHOOSE r \in { IF (a % 2) = 1 THEN Xor(a \div 2, 40961) ELSE a \div 2 :
                     a \in { acc } } : TRUE

\* one byte of the bitwise CRC: XOR the byte in, then eight bit steps
reference_byte(acc, byte) ==
    reference_bit(reference_bit(reference_bit(reference_bit(
    reference_bit(reference_bit(reference_bit(reference_bit(
        Xor(acc, byte)))))))))

\* the bitwise CRC-16/MODBUS of the first n bytes of data: init 0xFFFF, no
\* final XOR
RECURSIVE crc16_reference(_, _)
crc16_reference(data, n) ==
    IF n = 0 THEN 65535
    ELSE CHOOSE r \in { reference_byte(acc, data[n]) :
                          acc \in { crc16_reference(data, n - 1) } } : TRUE

\* C11 as stated: for every byte sequence m, the empty one included,
\* verify_crc accepts m followed by calculate_crc16(m), low byte first.
C11_RoundTrip ==
    (input.fn = "verify_frame" /\ output.done) => output.value = TRUE

\* C11 amended: for every non-empty byte sequence m (a frame of at least 3
\* bytes), verify_crc accepts m followed by calculate_crc16(m), low byte
\* first.
C11_RoundTripNonEmpty ==
    (input.fn = "verify_frame" /\ output.done /\ Len(input.data) >= 3) =>
        output.value = TRUE

\* the message 01 55 with its checksum appended has been verified
C11_Witness ==
    /\ input = [fn |-> "verify_frame", data |-> << 1, 85, 192, 31 >>]
    /\ output.done
    /\ output.value = TRUE

\* C12: calculate_crc16 equals the bitwise CRC-16/MODBUS (polynomial 0xA001,
\* init 0xFFFF, no final XOR); the table-driven update of one byte equals
\* eight bit steps for every byte value; the empty sequence gives 0xFFFF and
\* the single byte 0x00 gives 0x40BF.
C12_CrcReference ==
    (input.fn = "calculate_crc16" /\ output.done) =>
        /\ output.value = crc16_reference(input.data, Len(input.data))
        /\ output.value \in 0..65535
        /\ input.data = << >> => output.value = 65535
        /\ input.data = << 0 >> => output.value = 16575
        /\ \A byte \in 0..255 :
              crc_update(output.value, byte) = reference_byte(output.value, byte)

\* the checksum of the single byte 0x00 has been computed
C12_Witness ==
    /\ input = [fn |-> "calculate_crc16", data |-> << 0 >>]
    /\ output.done
    /\ output.value = 16575

\* C13: verify_crc returns false for every buffer of length 0, 1 or 2.
C13_ShortBuffers ==
    (input.fn \in { "verify_crc", "verify_frame" } /\ output.done
        /\ Len(input.data) < 3) =>
        output.value = FALSE

\* the two bytes FF FF (the checksum of the empty message) were rejected
C13_Witness ==
    /\ input.fn = "verify_crc"
    /\ input.data = << 255, 255 >>
    /\ output.done
    /\ output.value = FALSE

(* ----------------------------- request frames -------------------------- *)

\* C14: a request frame is 8 bytes: device id, function code (0x03 for a
\* read, 0x06 for a write), address high byte first, count or value high
\* byte first, CRC16 of the first six bytes low byte first; a read of 11
\* registers at 0x0100 from device 1 starts 01 03 01 00 00 0B.
C14_RequestLayout ==
    (input.fn \in { "read_registers", "write_register" } /\ output.done) =>
        LET frame == output.value
            address == input.data[1]
            word == input.data[2]
            crc == crc16_reference(frame, 6)
        IN  /\ Len(frame) = 8
            /\ \A i \in 1..8 : frame[i] \in 0..255
            /\ frame[1] = device_id
            /\ frame[2] = (IF input.fn = "read_registers" THEN 3 ELSE 6)
            /\ (256 * frame[3]) + frame[4] = address
            /\ (256 * frame[5]) + frame[6] = word
            /\ frame[7] + (256 * frame[8]) = crc
            /\ (input.fn = "read_registers" /\ address = 256 /\ word = 11) =>
                  SubSeq(frame, 1, 6) = << 1, 3, 1, 0, 0, 11 >>

\* the request of read_registers(0x0100, 11) has been built
C14_Witness ==
    /\ input = [fn |-> "read_registers", data |-> << 256, 11 >>]
    /\ output.done
    /\ output.value = << 1, 3, 1, 0, 0, 11, 5, 241 >>

(* ---------------------------- real-time data -------------------------- *)

\* 2^j modulo d, for j up to 90
PowerMod(j, d) ==
    LET a == IF j < 30 THEN j ELSE 30
        b == IF j - a < 30 THEN j - a ELSE 30
        c == (j - a) - b
    IN  (((2 ^ a) % d) * ((2 ^ b) % d) * ((2 ^ c) % d)) % d

\* the decimal number n / d (d = 10 or 100) as a float: the double nearest
\* to n / d, as the literal "13.2" denotes the double nearest to 132 / 10.
\* Long division of n * 2^70 by d, one bit of the quotient at a time:
\* rem(i) is the remainder left by the first i of the 86 bits of n * 2^70.
Decimal(n, d) ==
    LET dividend == Bits(n, 16) \o [i \in 1..70 |-> 0]
        rem(i) == IF i <= 16 THEN (n \div (2 ^ (16 - i))) % d
                  ELSE ((n % d) * PowerMod(i - 16, d)) % d
        quotient == [i \in 1..86 |-> ((2 * rem(i - 1)) + dividend[i]) \div d]
    IN  Round(StripZeros(quotient), rem(86) # 0, -70)

\* C15: read_realtime_data maps the words of the block by index with the
\* scales of the register map: word 0 is the state of charge, word 1 / 10
\* the battery voltage, word 2 / 100 the charging current, word 4 / 10 the
\* load voltage, word 5 / 100 the load current, word 6 the load power,
\* word 7 / 10 the solar voltage, word 8 / 100 the solar current, word 9
\* the solar power (132 gives 13.2, 15 gives 0.15, 800 gives 80.0).
C15_RealtimeFields ==
    (input.fn = "read_realtime_data" /\ output.done) =>
        LET w == input.data
            r == output.value
        IN  /\ r.battery.state_of_charge = w[1]
            /\ r.battery.voltage = Decimal(w[2], 10)
            /\ r.battery.current = Decimal(w[3], 100)
            /\ r.load.voltage = Decimal(w[5], 10)
            /\ r.load.current = Decimal(w[6], 100)
            /\ r.load.power = w[7]
            /\ r.solar.voltage = Decimal(w[8], 10)
            /\ r.solar.current = Decimal(w[9], 100)
            /\ r.solar.power = w[10]

\* C16: the controller temperature is the high byte and the battery
\* temperature the low byte of word 3, each as a signed 8-bit two's
\* complement number; 0x0A05 gives (10, 5), 0xFE05 (-2, 5), 0x1405 (20, 5).
C16_Temperatures ==
    (input.fn = "read_realtime_data" /\ output.done) =>
        LET word == input.data[4]
            controller == output.value.controller.temperature
            battery == output.value.battery.temperature
        IN  /\ controller \in -128..127
            /\ battery \in -128..127
            /\ (256 * (controller % 256)) + (battery % 256) = word
            /\ word = 2565 => (controller = 10 /\ battery = 5)
            /\ word = 65029 => (controller = -2 /\ battery = 5)
            /\ word = 5125 => (controller = 20 /\ battery = 5)

\* the word 0xFE05 has been decoded to (-2, 5)
C16_Witness ==
    /\ input.fn = "read_realtime_data"
    /\ input.data[4] = 65029
    /\ output.done
    /\ output.value.controller.temperature = -2
    /\ output.value.battery.temperature = 5

\* C17: the load switch is on exactly when the raw word is 1, in
\* read_realtime_data (word 10) and in get_load_state, for every 16-bit word.
C17_LoadSwitch ==
    /\ (input.fn = "read_realtime_data" /\ output.done) =>
          (output.value.load.is_on <=> input.data[11] = 1)
    /\ (input.fn = "get_load_state" /\ output.done) =>
          /\ output.value.kind = "ok"
          /\ output.value.flag <=> input.data[1] = 1

\* get_load_state has reported off for the raw word 2
C17_Witness ==
    /\ input = [fn |-> "get_load_state", data |-> << 2 >>]
    /\ output.done
    /\ output.value.kind = "ok"
    /\ output.value.flag = FALSE

(* --------------------------- exception messages ------------------------ *)

\* the table of messages as the design states it
DesignMessages ==
    [code \in { 1, 2, 3, 4, 5, 6, 8, 10, 11 } |->
        << "Illegal Function", "Illegal Data Address", "Illegal Data Value",
           "Slave Device Failure", "Acknowledge", "Slave Device Busy", "",
           "Memory Parity Error", "", "Gateway Path Unavailable",
           "Gateway Target Failed to Respond" >>[code]]

\* the same table with the message the package has for 0x0B
PackageMessages ==
    [DesignMessages EXCEPT ![11] = "Gateway Target Device Failed to Respond"]

\* "Unknown Exception (0x..)" with the code as two upper-case hex digits
UnknownMessage(code) ==
    LET digit(d) ==
            CASE d < 10 -> << "0", "1", "2", "3", "4", "5", "6", "7", "8", "9" >>[d + 1]
              [] d = 10 -> "A" [] d = 11 -> "B" [] d = 12 -> "C"
              [] d = 13 -> "D" [] d = 14 -> "E" [] d = 15 -> "F"
    IN  "Unknown Exception (0x" \o digit(code \div 16) \o digit(code % 16) \o ")"

\* the error raised for an exception response carries the exception code,
\* the message table has for it (the Unknown message for a code outside
\* table) and the function code without bit 0x80
CarriesMessage(table) ==
    (input.fn = "exception_response" /\ output.done) =>
        LET code == input.data[3]
            error == output.value
        IN  /\ error.kind = "ModbusError"
            /\ error.exception_code = code
            /\ error.function_code = input.data[2] - 128
            /\ error.message = (IF code \in DOMAIN table THEN table[code]
                                 ELSE UnknownMessage(code))
            /\ (input.data[2] = 131 /\ code = 2) =>
                  (error.message = "Illegal Data Address" /\ error.function_code = 3)

\* C18 as stated: the error of an exception response carries the message of
\* the design's table, 0x0B being "Gateway Target Failed to Respond".
C18_DesignMessages == CarriesMessage(DesignMessages)

\* C18 amended: the same, 0x0B being "Gateway Target Device Failed to
\* Respond".
C18_PackageMessages == CarriesMessage(PackageMessages)

\* the exception response 0x83 / 0x0B has raised its error
C18_Witness ==
    /\ input = [fn |-> "exception_response", data |-> << 1, 131, 11 >>]
    /\ output.done
    /\ output.value.message = "Gateway Target Device Failed to Respond"
    /\ output.value.function_code = 3

(* ------------------------- device information -------------------------- *)

\* read_device_info of thread t has returned
InfoReturned(t) == ~info[t].active /\ info[t].field = 4

\* read i of the returned call ended without an exception
ReadOk(t, i) == info[t].reads[i].outcome.kind = "ok"
ReadValues(t, i) == info[t].reads[i].outcome.values

\* C19: when read_device_info returns, the three reads (model at 0x000C,
\* serial number at 0x0018, versions at 0x0014) have all been attempted,
\* whatever happened to the others; each field holds the text of its own
\* read when that read returned and the register it is decoded from is
\* there, and is empty otherwise; the object returned is the one cached.
C19_FieldsIndependent ==
    \A t \in Threads : InfoReturned(t) =>
        LET d == info[t].info
        IN  /\ Len(info[t].reads) = 3
            /\ \A i \in 1..3 : info[t].reads[i].call = FieldReads[i]
            /\ d.model = (IF ReadOk(t, 1) THEN decode_text(ReadValues(t, 1))
                          ELSE << >>)
            /\ d.serial_number = (IF ReadOk(t, 2) THEN decode_text(ReadValues(t, 2))
                                  ELSE << >>)
            /\ d.hardware_version =
                 (IF ReadOk(t, 3) /\ Len(ReadValues(t, 3)) >= 1
                  THEN version_string(ReadValues(t, 3)[1]) ELSE << >>)
            /\ d.software_version =
                 (IF ReadOk(t, 3) /\ Len(ReadValues(t, 3)) >= 3
                  THEN version_string(ReadValues(t, 3)[3]) ELSE << >>)
            /\ _device_info = d

\* the read of the model failed with a checksum error, the serial number
\* and the versions were read: "RNG\x001", "V1.2", "V10.20"
C19_Witness ==
    /\ InfoReturned(MainThread)
    /\ info[MainThread].reads[1].outcome.kind = "CRCError"
    /\ info[MainThread].info =
         [model |-> << >>, serial_number |-> << 82, 78, 71, 0, 49 >>,
          hardware_version |-> << 86, 49, 46, 50 >>,
          software_version |-> << 86, 49, 48, 46, 50, 48 >>]

(* ------------------------ ownership of the port ------------------------ *)

\* no Serial object the client has opened is open, and is_connected is false
AllClosed == (\A s \in 1..MaxSerials : ~is_open[s]) /\ ~is_connected

\* C20: once disconnect() returns or a with block of the client exits,
\* every transport the client opened via connect() is closed and
\* is_connected is false; disconnect() on a disconnected client changes
\* nothing.
C20_ClosedAfterDisconnect ==
    [][(disconnect(MainThread) \/ __exit__(MainThread)) =>
          /\ AllClosed'
          /\ (_serial = NoSerial => is_open' = is_open)]_vars

(* ------------------------------ register map --------------------------- *)

\* the word range of an entry
Words(r) == r.address..(r.address + r.length - 1)

\* the addresses of group grow in definition order
Monotonic(group) ==
    \A i, j \in 1..Len(group) : i < j => group[i].address < group[j].address

\* no word belongs to two entries of group
NonOverlapping(group) ==
    \A i, j \in 1..Len(group) : i # j => Words(group[i]) \cap Words(group[j]) = {}

\* (lowest address, highest end - lowest address), (0, 0) for no entry
Span(group) ==
    IF Len(group) = 0 THEN << 0, 0 >>
    ELSE LET lowest == CHOOSE a \in { group[i].address : i \in 1..Len(group) } :
                          \A i \in 1..Len(group) : a <= group[i].address
             highest == CHOOSE e \in { group[i].address + group[i].length : i \in 1..Len(group) } :
                          \A i \in 1..Len(group) : group[i].address + group[i].length <= e
         IN  << lowest, highest - lowest >>

\* the layout of the groups in groups and the range of the dict at hand
RegisterLayout(monotonic) ==
    /\ \A g \in monotonic : Monotonic(g)
    /\ \A g \in RegisterGroups : NonOverlapping(g)
    /\ (input.fn = "get_register_range" /\ output.done) =>
          output.value = Span(input.data)

\* C21 as stated: in each of the five groups the addresses grow in
\* definition order and the word ranges of distinct entries do not overlap;
\* get_register_range returns (min address, max(address + length) - min
\* address), and (0, 0) for an empty group.
C21_MonotonicGroups == RegisterLayout(RegisterGroups)

\* C21 amended: the same, the addresses growing in definition order in the
\* four groups other than the device information, where serial_number
\* (0x0018) is defined before the versions (0x0014, 0x0016).
C21_Layout ==
    /\ RegisterLayout(RegisterGroups \ { DEVICE_INFO_REGISTERS })
    /\ ~Monotonic(DEVICE_INFO_REGISTERS)

\* the range of the device information has been computed: 20 words from
\* 0x000C
C21_Witness ==
    /\ input = [fn |-> "get_register_range", data |-> DEVICE_INFO_REGISTERS]
    /\ output.done
    /\ output.value = << 12, 20 >>

(* ------------------------- leftovers of an exchange -------------------- *)

IsPrefix(p, r) == Len(p) <= Len(r) /\ SubSeq(r, 1, Len(p)) = p

\* the bytes the transaction of t has taken off the transport are the
\* beginning of an answer of the device to the request of this transaction
ParsesOwnAnswer(t) ==
    request[t] # << >> =>
        \E r \in Responses(request[t]) : IsPrefix(Response(t), r)

\* a step in which the transaction of t fails
Fails(t) == pc[t] # "failed" /\ pc'[t] = "failed"

\* a failing transaction leaves the transport object, its being open and
\* the cached device info as they are
C22_NoErrorState ==
    \A t \in Threads : Fails(t) => UNCHANGED << _serial, is_open, _device_info >>

\* when a transaction writes its request the input buffer is empty
C22_Flushed ==
    \A t \in Threads : (pc[t] = "write" /\ pc'[t] = "read_header") => rxbuf = << >>

\* C22: a failed transaction leaves no error state behind (the client stays
\* connected, the cached device info is unchanged), every byte buffered when
\* the next transaction starts is discarded before that transaction writes,
\* and no byte left over from an exchange is parsed as part of the response
\* to the next one.
C22_NoLeftovers ==
    /\ [](\A t \in Threads : ParsesOwnAnswer(t))
    /\ [][C22_NoErrorState /\ C22_Flushed]_vars

\* the parts of C22 that concern the client and its input buffer alone
C22_ClientUntouched == [][C22_NoErrorState /\ C22_Flushed]_vars

(* ------------------------------ load switch ---------------------------- *)

\* the address of the load switch in the register map
LoadSwitch == CONTROL_REGISTERS[1].address

\* how many requests the call of t has written
Writes(t) == Cardinality({ i \in 1..Len(ops[t]) : ops[t][i][1] = "write" })

\* C23: set_load(on) is one write-single (0x06) transaction to the load
\* switch register 0x010A with value 1 for on and 0 for off, get_load_state
\* one read-holding (0x03) transaction of 1 register at 0x010A: the request
\* of the call is that frame, it is written at most once, and exactly once
\* when the call returns.
C23_LoadSwitchOnly ==
    \A t \in Threads :
        call[t].op \in { "set_load", "get_load_state" } =>
            /\ LoadSwitch = 266
            /\ SubSeq(request[t], 1, 6) =
                 (IF call[t].op = "set_load"
                  THEN << 1, 6, 1, 10, 0, (IF call[t].arg = 1 THEN 1 ELSE 0) >>
                  ELSE << 1, 3, 1, 10, 0, 1 >>)
            /\ Len(request[t]) = 8
            /\ ChecksumOnWire(request[t])
            /\ Writes(t) <= 1
            /\ \A i \in 1..Len(ops[t]) :
                  ops[t][i][1] = "write" => ops[t][i][2] = 8
            /\ pc[t] = "complete" => Writes(t) = 1

\* get_load_state has returned True after one exchange, set up by the
\* request 01 03 01 0A 00 01 and its checksum
C23_Witness ==
    /\ call[MainThread] = [op |-> "get_load_state", address |-> 0, arg |-> 0]
    /\ pc[MainThread] = "complete"
    /\ outcome[MainThread].flag
    /\ request[MainThread] = << 1, 3, 1, 10, 0, 1, 165, 244 >>
    /\ ops[MainThread][2] = << "write", 8 >>
    /\ Writes(MainThread) = 1

(* ----------------------- checksum of an exception ---------------------- *)

\* the transaction of t has received a 3-byte header with bit 0x80 set in
\* the function code
ExceptionHeader(t) == Len(header[t]) = 3 /\ IsException(header[t][2])

\* the call of t is over
Ended(t) == pc[t] \in { "complete", "failed" }

\* the two checksum bytes of the exception response were read and are right
ExceptionChecksumValid(t) ==
    Len(remaining[t]) = 2 /\ ChecksumOnWire(header[t] \o remaining[t])

\* C24: once a header with function-code bit 0x80 has been received, the
\* transaction ends, and it ends in ModbusError, whether the checksum bytes
\* read after the header are valid, invalid or fewer than two.
C24_ExceptionUnchecked ==
    /\ [](\A t \in Threads : (ExceptionHeader(t) /\ Ended(t)) =>
             /\ pc[t] = "failed"
             /\ outcome[t].kind = "ModbusError"
             /\ Len(remaining[t]) <= 2)
    /\ (ExceptionHeader(MainThread) /\ ~Ended(MainThread))
          ~> (ExceptionHeader(MainThread) /\ outcome[MainThread].kind = "ModbusError")

\* the exception response 01 83 02 00 00, whose checksum is wrong, has ended
\* the call with ModbusError
C24_Witness ==
    /\ ExceptionHeader(MainThread)
    /\ Len(remaining[MainThread]) = 2
    /\ ~ExceptionChecksumValid(MainThread)
    /\ outcome[MainThread].kind = "ModbusError"

\* fewer than two checksum bytes arrived before the deadline
C24_ShortChecksum ==
    /\ ExceptionHeader(MainThread)
    /\ Len(remaining[MainThread]) < 2
    /\ outcome[MainThread].kind = "ModbusError"

(* -------------------- read_device_info and failures -------------------- *)

\* how read i of the call of t ended
ReadKind(t, i) == info[t].reads[i].outcome.kind

\* the step in which read_device_info of t returns
Returns(t) == info[t].active /\ ~info'[t].active

\* C25: read_device_info leaves its three reads behind whatever they raised
\* and returns; the DeviceInfo it returns is the cached one, a field whose
\* read failed is the empty string, and on a client that is not connected,
\* where every read fails with the error of _send_request, all fields are.
C25_NeverRaises ==
    /\ [](\A t \in Threads : InfoReturned(t) =>
             LET d == info[t].info
             IN  /\ Len(info[t].reads) = 3
                 /\ \A i \in 1..3 : ReadKind(t, i) \in
                       { "ok", "CommunicationError", "TimeoutError", "CRCError",
                         "ModbusError", "struct.error" }
                 /\ ReadKind(t, 1) # "ok" => d.model = << >>
                 /\ ReadKind(t, 2) # "ok" => d.serial_number = << >>
                 /\ ReadKind(t, 3) # "ok" =>
                       d.hardware_version = << >> /\ d.software_version = << >>
                 /\ (\A i \in 1..3 : ReadKind(t, i) = "CommunicationError") =>
                       d = DeviceInfo)
    /\ [][\A t \in Threads : Returns(t) =>
             /\ Len(info[t].reads) = 3
             /\ _device_info' = info[t].info
             /\ info'[t].info = info[t].info]_vars

\* read_device_info has returned the all-default DeviceInfo on a client that
\* was never connected, and has cached it
C25_Witness ==
    /\ InfoReturned(MainThread)
    /\ \A i \in 1..3 : ReadKind(MainThread, i) = "CommunicationError"
    /\ \A s \in 1..MaxSerials : ~is_open[s]
    /\ info[MainThread].info = DeviceInfo
    /\ _device_info = DeviceInfo

(* --------------------------- cached device info ------------------------ *)

\* a step in which t enters a read of registers
Issues(t) == call'[t] # call[t] /\ call'[t] # NoCall

\* a step in which read_all of t returns a reading
ReturnsReading(t) == reading[t].active /\ reading'[t].stage = "returned"

\* C26: once a device info is cached, whatever its fields, every read the
\* client issues for read_all is the read of 11 registers at 0x0100, the
\* cache is never replaced, not by a real-time read and not by disconnect()
\* or connect(), and a read_all that returns a reading has attached the
\* cached object to it; the cache is set only by a returning
\* read_device_info, and a read_all with include_device_info that returns
\* leaves a cache behind.
C26_ReadOnce ==
    [][\A t \in Threads :
          /\ (_device_info # NoDeviceInfo /\ Issues(t)) =>
                /\ call'[t] = RealtimeCall
                /\ SubSeq(request'[t], 1, 6) = << 1, 3, 1, 0, 0, 11 >>
          /\ _device_info # NoDeviceInfo => _device_info' = _device_info
          /\ _device_info' # _device_info => \E u \in Threads : Returns(u)
          /\ ReturnsReading(t) =>
                /\ call[t] = RealtimeCall
                /\ reading'[t].include_device_info => _device_info # NoDeviceInfo
                /\ _device_info # NoDeviceInfo =>
                      reading'[t].device_info = _device_info]_vars

\* a read_all has returned a reading with the cached device info attached,
\* all fields of which are empty: the device info was read while the client
\* was not connected, and not again by this read_all on the connected client
C26_Witness ==
    /\ reading[MainThread].stage = "returned"
    /\ reading[MainThread].include_device_info
    /\ is_connected
    /\ _device_info = DeviceInfo
    /\ reading[MainThread].device_info = DeviceInfo
    /\ \A i \in 1..3 : ReadKind(MainThread, i) = "CommunicationError"

====
